---- MODULE Spec2Model ----
(***************************************************************************)
(* A model of pypette's experiment conductor (pypette/experiment.py) and   *)
(* of the parts of the techniques and analysts that decide what the        *)
(* conductor does: which slots allocate() sets, which temporary files      *)
(* sample() writes, whether release() raises, what analyse() and discard() *)
(* do to an analyst's records.                                             *)
(***************************************************************************)
EXTENDS Integers, Sequences, FiniteSets, TLC

\* ------------------------------------------------------------------------
\* Bounds of the model.
MaxExec == 2        \* definition.executions ranges over 0..MaxExec
MaxFail == 2        \* at most this many executions raise an exception
MaxAnalysts == 2    \* definition.analysts has at most this many entries
MaxRegister == 3    \* at most this many register calls on a registry
MaxCalls == 2       \* at most this many calls on a console
MaxLines == 2       \* the guest agent writes at most this many lines
MaxDevices == 2     \* the host has this many network block devices
MaxRuns == 2        \* a conductor calls the volume manager this often

\* ------------------------------------------------------------------------
\* The components the registries hold.
TechniqueNames == {"acquisition", "control", "initial-state"}

AnalystNames == {"experiment-metadata", "sample-metadata"}

\* A name no module registers.
Unregistered == "unregistered"

\* definition.analysts: any list of names, registered or not.
AnalystLists ==
    UNION {[1..n -> AnalystNames \cup {Unregistered}] : n \in 0..MaxAnalysts}

VARIABLES
    executions,   \* definition.executions
    technique,    \* definition.technique.name
    analysts,     \* the list get_analysts returned (names, declared order)
    identities,   \* the list conduct iterates over and appends to
    pos,          \* how many elements of identities the for loop consumed
    minted,       \* how many identities uuid4 produced so far
    execution,    \* the loop variable (0 before the first iteration)
    tech,         \* the technique instance of the current execution
    ninst,        \* how many technique instances were constructed
    k,            \* index of the analyst the current inner loop is at
    table,        \* per analyst: execution identity -> sample it recorded
    pc,           \* position of conduct
    failures,     \* how many times the except clause was entered
    calls,        \* history: every call conduct made, in order
    parameters,   \* definition.technique.parameters
    klass,        \* the bases of the class get_technique instantiated last
    raised,       \* the exception that left conduct
    served,       \* the last hook called on the technique and its provider
    components,   \* Registry.components
    registered,   \* history: the register calls made on the registry
    got,          \* the outcome of the last get on the registry
    wire,         \* what the guest agent wrote and recv has not yet returned
    buffer,       \* Console.buffer
    sent,         \* what the console wrote on its socket
    cpc,          \* where the console is: ready, or receiving inside a call
    result,       \* the outcome of the last call on the console
    requests,     \* history: the calls made on the console
    written,      \* history: the lines the guest agent wrote
    decoded,      \* history: how many lines receive took from the buffer
    split,        \* history: a recv of this call left the line unfinished
    bound,        \* the network block devices an image is connected to
    parts,        \* the partition lines of /proc/partitions
    mounted,      \* the devices a partition of which is mounted
    vol,          \* per conductor: its caller of the volume manager
    attachedVector \* the vector image is connected to a device of the host

conductVars == <<executions, technique, analysts, identities, pos, minted,
                 execution, tech, ninst, k, table, pc, failures, calls,
                 parameters, klass, raised>>

hookVars == <<served>>

regVars == <<components, registered, got>>

consoleVars ==
    <<wire, buffer, sent, cpc, result, requests, written, decoded, split>>

\* The variables conduct itself never writes.
volVars == <<bound, parts, mounted, vol>>

hostVars == <<attachedVector>>

elsewhere == <<hookVars, regVars, consoleVars, volVars, hostVars>>

vars == <<conductVars, elsewhere>>

\* ------------------------------------------------------------------------
\* Helpers on sequences and dictionaries.
Prefix(s, n) == SubSeq(s, 1, n)

Range(s) == {s[i] : i \in DOMAIN s}

DictSet(d, key, value) ==
    [x \in (DOMAIN d) \cup {key} |-> IF x = key THEN value ELSE d[x]]

DictDel(d, key) == [x \in (DOMAIN d) \ {key} |-> d[x]]

EmptyDict == [x \in {} |-> 0]

\* uuid.uuid4(): a token that no earlier call returned.
Uuid4(n) == n + 1

\* ------------------------------------------------------------------------
\* Techniques.

\* The slot that holds the name of the memory image file.
ImageSlot(name) == IF name = "acquisition" THEN "memory.final" ELSE "memory.image"

\* allocate(): the slots it assigns from tempfile.mktemp, in order.
AllocateSteps(name) ==
    IF name = "acquisition" THEN <<"memory.final", "memory.acquired">>
    ELSE <<"memory.image">>

\* A sample() that saves the memory image before it suspends the domain.
SampleSteps_SaveBeforeSuspend(name) ==
    CASE name = "acquisition" ->
           <<"sample_start", "open", "revert", "agent_connect",
             "acquisition_start", "resume", "status_initial",
             "attach_toolkit", "attach_vector", "acquire",
             "detach_toolkit", "detach_vector", "acquisition_finish",
             "status_final", "save_memory", "suspend", "close",
             "volume.attach", "volume.wait_for_partition", "volume.mount",
             "copy", "volume.unmount", "volume.detach", "sample_finish">>
      [] name = "control" ->
           <<"open", "revert", "resume", "idle", "save_memory", "suspend",
             "close">>
      [] OTHER ->
           <<"open", "revert", "save_memory", "close">>

\* sample(): the statements that can be told apart from outside, in order.
SampleSteps(name) ==
    CASE name = "acquisition" ->
           <<"sample_start", "open", "revert", "agent_connect",
             "acquisition_start", "resume", "status_initial",
             "attach_toolkit", "attach_vector", "acquire",
             "detach_toolkit", "detach_vector", "acquisition_finish",
             "status_final", "suspend", "save_memory", "close",
             "volume.attach", "volume.wait_for_partition", "volume.mount",
             "copy", "volume.unmount", "volume.detach", "sample_finish">>
      [] name = "control" ->
           <<"open", "revert", "resume", "idle", "suspend", "save_memory",
             "close">>
      [] OTHER ->
           <<"open", "revert", "save_memory", "close">>

\* The steps inside try: ... finally: domain.close().
TryRegion(name) ==
    CASE name = "acquisition" -> 3..16
      [] name = "control" -> 2..6
      [] OTHER -> {}

\* time.time() and slot assignments raise nothing; every other step calls
\* the virtualisation platform, the guest agent or an external tool.
TimeSteps == {"sample_start", "acquisition_start", "acquisition_finish",
              "sample_finish"}

FailPoints(name) ==
    {i \in DOMAIN SampleSteps(name) : SampleSteps(name)[i] \notin TimeSteps}

\* transfer_acquired_image has no finally clause: when a step after its
\* volume.attach raises (the detach included, whose qemu-nbd -d failed),
\* the image stays connected to the device.
LeavesAttached(name, f) ==
    /\ name = "acquisition"
    /\ f # 0
    /\ SampleSteps(name)[f] \in {"volume.wait_for_partition", "volume.mount",
                                 "copy", "volume.unmount", "volume.detach"}

\* A sample() that carries on with the next step after the one that raised.
SampleTrace_RunsOn(name, f) ==
    IF f = 0 THEN SampleSteps(name)
    ELSE Prefix(SampleSteps(name), f)
         \o SubSeq(SampleSteps(name), f + 1, Len(SampleSteps(name)))

\* The statements sample() runs when step f raises (f = 0: none raises).
SampleTrace(name, f) ==
    IF f = 0 THEN SampleSteps(name)
    ELSE IF f \in TryRegion(name)
         THEN Prefix(SampleSteps(name), f) \o <<"close">>
         ELSE Prefix(SampleSteps(name), f)

\* The steps of sample() that returned normally when step f raises.
SampleDone(name, f) ==
    IF f = 0 THEN Range(SampleSteps(name))
    ELSE Range(Prefix(SampleSteps(name), f - 1))
         \cup (IF f \in TryRegion(name) THEN {"close"} ELSE {})

\* The slots a completed step assigns.
StepSlots(step) ==
    CASE step = "sample_start" -> {"time.sample.start"}
      [] step = "acquisition_start" -> {"time.acquisition.start"}
      [] step = "status_initial" -> {"agent.initial"}
      [] step = "acquire" -> {"acquisition.standard-output",
                              "acquisition.standard-error",
                              "acquisition.return-code"}
      [] step = "acquisition_finish" -> {"time.acquisition.finish"}
      [] step = "status_final" -> {"agent.final"}
      [] step = "sample_finish" -> {"time.sample.finish"}
      [] OTHER -> {}

\* The temporary file a step writes, named by the slot that holds its name.
StepFile(name, step) ==
    CASE step = "save_memory" -> {ImageSlot(name)}
      [] step = "copy" -> {"memory.acquired"}
      [] OTHER -> {}

\* interface.Technique.__init__: a fresh instance with an empty output.
NewTechnique(inst) ==
    [inst |-> inst, output |-> {}, files |-> {}, state |-> "unallocated",
     trace |-> <<>>]

\* release(): does it raise?  A slot read of an unset slot is a KeyError,
\* os.unlink of a missing file an OSError.
ReleaseRaises(name, t) ==
    CASE name = "initial-state" ->
           \/ "memory.image" \notin t.output
           \/ "memory.image" \notin t.files
      [] name = "control" -> "memory.image" \notin t.output
      [] OTHER ->
           \/ "memory.final" \notin t.output
           \/ "memory.acquired" \notin t.output

\* release(): the exception it raises when it does.
ReleaseError(name, t) ==
    IF name = "initial-state" /\ "memory.image" \in t.output
    THEN "OSError" ELSE "KeyError"

\* release(): the temporary files left after it.
ReleaseFiles(name, t) ==
    CASE name = "initial-state" ->
           IF ReleaseRaises(name, t) THEN t.files
           ELSE t.files \ {"memory.image"}
      [] name = "control" ->
           IF ReleaseRaises(name, t) THEN t.files
           ELSE t.files \ {"memory.image"}
      [] OTHER ->
           IF "memory.final" \notin t.output THEN t.files
           ELSE IF "memory.acquired" \notin t.output
                THEN t.files \ {"memory.final"}
                ELSE t.files \ {"memory.final", "memory.acquired"}

\* ------------------------------------------------------------------------
\* Composition of techniques from behaviours.

\* The parameters that select the behaviours.
TOOLKIT_BEHAVIOUR_KEY == "technique.behaviour.toolkit"

VECTOR_BEHAVIOUR_KEY == "technique.behaviour.vector"

INTERVENTION_BEHAVIOUR_KEY == "technique.behaviour.intervention"

DELAY_BEHAVIOUR_KEY == "technique.behaviour.delay"

\* The dictionaries of the factories.
TOOLKIT_BEHAVIOURS == [n \in {"optical"} |-> "OpticalAcquisitionToolkit"]

VECTOR_BEHAVIOURS == [n \in {"fixed-drive"} |-> "FixedDriveAcquisitionVector"]

INTERVENTION_BEHAVIOURS ==
    [n \in {"execute", "monitor"} |->
        IF n = "execute" THEN "ExecuteInterventionBehaviour"
        ELSE "MonitorInterventionBehaviour"]

DELAY_BEHAVIOURS ==
    [n \in {"fixed", "random"} |->
        IF n = "fixed" THEN "FixedDelayBehaviour" ELSE "RandomDelayBehaviour"]

\* BEHAVIOURS[parameters[KEY]]: the class, or KeyError when the parameter
\* is absent or names no behaviour.
Lookup(behaviours, params, key) ==
    IF key \in DOMAIN params /\ params[key] \in DOMAIN behaviours
    THEN behaviours[params[key]]
    ELSE "KeyError"

\* The axes of a factory: parameter key and dictionary, in the order the
\* factory reads them.
Axes(name) ==
    CASE name = "acquisition" ->
           <<<<TOOLKIT_BEHAVIOUR_KEY, TOOLKIT_BEHAVIOURS>>,
             <<VECTOR_BEHAVIOUR_KEY, VECTOR_BEHAVIOURS>>,
             <<INTERVENTION_BEHAVIOUR_KEY, INTERVENTION_BEHAVIOURS>>>>
      [] name = "control" -> <<<<DELAY_BEHAVIOUR_KEY, DELAY_BEHAVIOURS>>>>
      [] OTHER -> <<>>

\* A factory that never looks at the vector parameter.
Composable_IgnoresVector(name, params) ==
    \A i \in DOMAIN Axes(name) :
        \/ Axes(name)[i][1] = VECTOR_BEHAVIOUR_KEY
        \/ Lookup(Axes(name)[i][2], params, Axes(name)[i][1]) # "KeyError"

\* The try block of a factory raises no KeyError.
Composable(name, params) ==
    \A i \in DOMAIN Axes(name) :
        Lookup(Axes(name)[i][2], params, Axes(name)[i][1]) # "KeyError"

\* A factory that puts the base technique first.
Inheritance_BaseFirst(name, params) ==
    CASE name = "acquisition" ->
           <<"AcquisitionTechnique",
             Lookup(INTERVENTION_BEHAVIOURS, params, INTERVENTION_BEHAVIOUR_KEY),
             Lookup(TOOLKIT_BEHAVIOURS, params, TOOLKIT_BEHAVIOUR_KEY),
             Lookup(VECTOR_BEHAVIOURS, params, VECTOR_BEHAVIOUR_KEY)>>
      [] name = "control" ->
           <<"ControlTechnique",
             Lookup(DELAY_BEHAVIOURS, params, DELAY_BEHAVIOUR_KEY)>>
      [] OTHER -> <<"InitialStateTechnique">>

\* The tuple of base classes handed to type(); a registered class that is
\* no factory is its own single base.
Inheritance(name, params) ==
    CASE name = "acquisition" ->
           <<Lookup(INTERVENTION_BEHAVIOURS, params, INTERVENTION_BEHAVIOUR_KEY),
             Lookup(TOOLKIT_BEHAVIOURS, params, TOOLKIT_BEHAVIOUR_KEY),
             Lookup(VECTOR_BEHAVIOURS, params, VECTOR_BEHAVIOUR_KEY),
             "AcquisitionTechnique">>
      [] name = "control" ->
           <<Lookup(DELAY_BEHAVIOURS, params, DELAY_BEHAVIOUR_KEY),
             "ControlTechnique">>
      [] OTHER -> <<"InitialStateTechnique">>

\* The base classes of the classes of the package (object left out).
Bases(cls) ==
    CASE cls \in {"AcquisitionTechnique", "ControlTechnique",
                  "InitialStateTechnique"} -> <<"Technique">>
      [] cls \in {"OpticalAcquisitionToolkit", "FixedDriveAcquisitionVector",
                  "ExecuteInterventionBehaviour", "MonitorInterventionBehaviour",
                  "FixedDelayBehaviour", "RandomDelayBehaviour"} -> <<"Behaviour">>
      [] OTHER -> <<>>

\* A toolkit that cannot be detached.
ClassMethods_NoDetach(cls) ==
    CASE cls = "Technique" -> {"allocate", "sample", "release"}
      [] cls = "Behaviour" -> {"allocate_behaviour", "release_behaviour"}
      [] cls = "AcquisitionTechnique" ->
           {"allocate", "sample", "attach_toolkit", "detach_toolkit",
            "attach_vector", "acquire", "detach_vector",
            "transfer_acquired_image", "release"}
      [] cls = "ControlTechnique" -> {"allocate", "sample", "idle", "release"}
      [] cls = "InitialStateTechnique" -> {"allocate", "sample", "release"}
      [] cls = "OpticalAcquisitionToolkit" -> {"attach_toolkit"}
      [] cls = "FixedDriveAcquisitionVector" ->
           {"allocate_behaviour", "attach_vector", "detach_vector",
            "transfer_acquired_image", "release_behaviour"}
      [] cls \in {"ExecuteInterventionBehaviour",
                  "MonitorInterventionBehaviour"} -> {"acquire"}
      [] cls \in {"FixedDelayBehaviour", "RandomDelayBehaviour"} -> {"idle"}
      [] OTHER -> {}

\* The methods a class body defines.
ClassMethods(cls) ==
    CASE cls = "Technique" -> {"allocate", "sample", "release"}
      [] cls = "Behaviour" -> {"allocate_behaviour", "release_behaviour"}
      [] cls = "AcquisitionTechnique" ->
           {"allocate", "sample", "attach_toolkit", "detach_toolkit",
            "attach_vector", "acquire", "detach_vector",
            "transfer_acquired_image", "release"}
      [] cls = "ControlTechnique" -> {"allocate", "sample", "idle", "release"}
      [] cls = "InitialStateTechnique" -> {"allocate", "sample", "release"}
      [] cls = "OpticalAcquisitionToolkit" ->
           {"attach_toolkit", "detach_toolkit"}
      [] cls = "FixedDriveAcquisitionVector" ->
           {"allocate_behaviour", "attach_vector", "detach_vector",
            "transfer_acquired_image", "release_behaviour"}
      [] cls \in {"ExecuteInterventionBehaviour",
                  "MonitorInterventionBehaviour"} -> {"acquire"}
      [] cls \in {"FixedDelayBehaviour", "RandomDelayBehaviour"} -> {"idle"}
      [] OTHER -> {}

\* The methods whose body is raise NotImplementedError().
Abstract(cls) ==
    CASE cls = "Technique" -> {"sample"}
      [] cls = "AcquisitionTechnique" ->
           {"attach_toolkit", "detach_toolkit", "attach_vector",
            "detach_vector", "transfer_acquired_image"}
      [] cls = "ControlTechnique" -> {"idle"}
      [] OTHER -> {}

\* The merge of Python's method resolution order: the first head that is
\* in no tail is taken, until nothing is left.
RECURSIVE Merge(_)
Merge(seqs) ==
    LET rest == SelectSeq(seqs, LAMBDA q : Len(q) > 0)
        free(i) == \A j \in DOMAIN rest : \A n \in 2..Len(rest[j]) :
                        rest[j][n] # Head(rest[i])
        cand == {i \in DOMAIN rest : free(i)}
    IN IF Len(rest) = 0 THEN <<>>
       ELSE IF cand = {} THEN <<"TypeError">>
       ELSE LET i == CHOOSE c \in cand : \A d \in cand : c <= d
                h == Head(rest[i])
            IN <<h>> \o Merge([j \in DOMAIN rest |->
                                  IF Head(rest[j]) = h THEN Tail(rest[j])
                                  ELSE rest[j]])

RECURSIVE Linearize(_)
Linearize(cls) ==
    <<cls>> \o Merge([i \in DOMAIN Bases(cls) |-> Linearize(Bases(cls)[i])]
                      \o <<Bases(cls)>>)

\* klass = type(name, inheritance, {}): its method resolution order.
TypeMro(inheritance) ==
    IF Len(inheritance) = 1 THEN Linearize(inheritance[1])
    ELSE <<"Dynamic">>
         \o Merge([i \in DOMAIN inheritance |-> Linearize(inheritance[i])]
                  \o <<inheritance>>)

\* The class whose body serves a method call on an instance.
Dispatch(mro, method) ==
    IF \E i \in DOMAIN mro : method \in ClassMethods(mro[i])
    THEN mro[CHOOSE i \in DOMAIN mro :
                /\ method \in ClassMethods(mro[i])
                /\ \A j \in 1..(i - 1) : method \notin ClassMethods(mro[j])]
    ELSE "AttributeError"

\* No get was called on the registry.
NoGet == [name |-> "none", result |-> "none", at |-> 0]

\* No class was instantiated.
NoClass == <<>>

\* The parameter dictionaries of a technique definition: every behaviour
\* parameter the technique reads is absent, names a behaviour of its axis,
\* or names none.
ChosenDicts(name) ==
    UNION {{d \in [{Axes(name)[i][1] : i \in given} ->
                     {"optical", "fixed-drive", "execute", "monitor", "fixed",
                      "random", Unregistered}] :
               \A i \in given :
                   d[Axes(name)[i][1]] \in
                       (DOMAIN Axes(name)[i][2]) \cup {Unregistered}} :
           given \in SUBSET DOMAIN Axes(name)}

AcquisitionDicts == ChosenDicts("acquisition")

ControlDicts == ChosenDicts("control")

ParameterDicts(name) ==
    CASE name = "acquisition" -> AcquisitionDicts
      [] name = "control" -> ControlDicts
      [] OTHER -> {EmptyDict}

\* The hooks a composed technique calls on itself.
Hooks == {"attach_toolkit", "detach_toolkit", "attach_vector", "acquire",
          "detach_vector", "transfer_acquired_image", "allocate_behaviour",
          "release_behaviour", "idle"}

NoHook == [hook |-> "none", by |-> "none"]

\* ------------------------------------------------------------------------
\* The guest agent console: JSON values and their text.

\* A JSON string, and a JSON object as its keys and their values in order.
Atom(s) == [t |-> "atom", v |-> s]

Obj(keys, vals) == [t |-> "obj", keys |-> keys, vals |-> vals]

\* key in message, message[key] and message[key] = value on an object.
Has(o, key) == \E i \in DOMAIN o.keys : o.keys[i] = key

Item(o, key) == o.vals[CHOOSE i \in DOMAIN o.keys : o.keys[i] = key]

ObjSet(o, key, value) ==
    IF Has(o, key)
    THEN Obj(o.keys, [i \in DOMAIN o.keys |->
                         IF o.keys[i] = key THEN value ELSE o.vals[i]])
    ELSE Obj(Append(o.keys, key), Append(o.vals, value))

\* json.dumps: the text of a value, as the sequence of its tokens.
RECURSIVE Dumps(_), DumpsMembers(_, _)
Dumps(x) ==
    IF x.t = "atom" THEN <<x.v>>
    ELSE <<"{">> \o DumpsMembers(x, 1) \o <<"}">>

DumpsMembers(x, i) ==
    IF i > Len(x.keys) THEN <<>>
    ELSE (IF i > 1 THEN <<",">> ELSE <<>>)
         \o <<x.keys[i], ":">> \o Dumps(x.vals[i]) \o DumpsMembers(x, i + 1)

\* The tokens that are punctuation, not strings.
Punctuation == {"{", "}", ":", ",", "\n"}

ParseFailed == [ok |-> FALSE, val |-> Atom("none"), rest |-> <<>>]

\* json.loads: the value a text denotes, a ValueError when it denotes none.
RECURSIVE ParseValue(_), ParseMembers(_, _)
ParseValue(ts) ==
    IF Len(ts) = 0 THEN ParseFailed
    ELSE IF Head(ts) = "{"
         THEN IF Len(ts) >= 2 /\ ts[2] = "}"
              THEN [ok |-> TRUE, val |-> Obj(<<>>, <<>>),
                    rest |-> SubSeq(ts, 3, Len(ts))]
              ELSE ParseMembers(Tail(ts), Obj(<<>>, <<>>))
         ELSE IF Head(ts) \in Punctuation THEN ParseFailed
         ELSE [ok |-> TRUE, val |-> Atom(Head(ts)), rest |-> Tail(ts)]

ParseMembers(ts, acc) ==
    IF Len(ts) < 3 \/ ts[1] \in Punctuation \/ ts[2] # ":" THEN ParseFailed
    ELSE LET v == ParseValue(SubSeq(ts, 3, Len(ts)))
         IN IF ~v.ok \/ Len(v.rest) = 0 THEN ParseFailed
            ELSE IF Head(v.rest) = "}"
                 THEN [ok |-> TRUE, val |-> ObjSet(acc, ts[1], v.val),
                       rest |-> Tail(v.rest)]
            ELSE IF Head(v.rest) = ","
                 THEN ParseMembers(Tail(v.rest), ObjSet(acc, ts[1], v.val))
            ELSE ParseFailed

Loads(line) ==
    LET r == ParseValue(line)
    IN IF r.ok /\ Len(r.rest) = 0 THEN r.val ELSE Atom("ValueError")

\* A json.loads that raises on no text.
LoadsRaises_Never(line) == FALSE

LoadsRaises(line) ==
    LET r == ParseValue(line) IN ~(r.ok /\ Len(r.rest) = 0)

\* "\n" in self.buffer, and self.buffer.split("\n", 1).
HasLine(b) == \E i \in DOMAIN b : b[i] = "\n"

FirstNewline(b) ==
    CHOOSE i \in DOMAIN b : b[i] = "\n" /\ \A j \in 1..(i - 1) : b[j] # "\n"

\* A split that keeps nothing of what follows the first line.
SplitLine_DropsRest(b) ==
    [line |-> SubSeq(b, 1, FirstNewline(b) - 1), rest |-> <<>>]

SplitLine(b) ==
    [line |-> SubSeq(b, 1, FirstNewline(b) - 1),
     rest |-> SubSeq(b, FirstNewline(b) + 1, Len(b))]

\* The outcomes of a call: what it returned, or the exception it raised.
NoResult == [kind |-> "none", value |-> Atom("none"), line |-> 0]

Returned(value, n) == [kind |-> "return", value |-> value, line |-> n]

RaisedError(kind, text, n) ==
    [kind |-> kind, value |-> [t |-> "text", v |-> text], line |-> n]

\* message[outer][inner] raises: message[outer] is a string (TypeError) or
\* has no such key (KeyError).
FieldMissing(message, outer, inner) ==
    \/ Item(message, outer).t = "atom"
    \/ ~Has(Item(message, outer), inner)

\* The characters of a string, in the pieces that matter here: the text
\* ": " inside a string is the same text as the ": " of a format.
Pieces(s) ==
    CASE s = "spawn: denied" -> <<"spawn", ": ", "denied">>
      [] s = "execute: spawn" -> <<"execute", ": ", "spawn">>
      [] OTHER -> <<s>>

\* "{}".format(x): the characters of a string, the text of an object.
Format(x) == IF x.t = "atom" THEN Pieces(x.v) ELSE Dumps(x)

\* An error text that leaves the source out.
ErrorText_MessageOnly(source, message) ==
    <<"Guest agent error in ">> \o Format(message)

\* "Guest agent error in {}: {}".format(result.source, result.message):
\* one string, the only argument of the RuntimeError.
ErrorText(source, message) ==
    <<"Guest agent error in ">> \o Format(source) \o <<": ">> \o Format(message)

\* A call that returns the command of the reply.
CallOutcome_ReturnsCommand(line, n) ==
    LET message == Loads(line)
    IN IF LoadsRaises(line)
       THEN RaisedError("RuntimeError", <<"Console received malformed message">>, n)
       ELSE IF message.t = "atom"
       THEN IF message.v \in {"reply", "error"}
            THEN RaisedError("RuntimeError",
                             <<"Console received malformed message">>, n)
            ELSE RaisedError("RuntimeError",
                             <<"Console received unexpected message">>, n)
       ELSE IF Has(message, "reply")
       THEN IF \/ FieldMissing(message, "reply", "command")
               \/ FieldMissing(message, "reply", "parameters")
            THEN RaisedError("RuntimeError",
                             <<"Console received malformed message">>, n)
            ELSE Returned(Item(Item(message, "reply"), "command"), n)
       ELSE IF Has(message, "error")
       THEN IF \/ FieldMissing(message, "error", "source")
               \/ FieldMissing(message, "error", "message")
            THEN RaisedError("RuntimeError",
                             <<"Console received malformed message">>, n)
            ELSE RaisedError("RuntimeError",
                             ErrorText(Item(Item(message, "error"), "source"),
                                       Item(Item(message, "error"), "message")),
                             n)
       ELSE RaisedError("RuntimeError",
                        <<"Console received unexpected message">>, n)

\* What call does with the line receive took from the buffer: receive
\* decodes it into a Reply or an Error or raises, call returns the
\* parameters of a Reply and raises on an Error.
CallOutcome(line, n) ==
    LET message == Loads(line)
    IN IF LoadsRaises(line)
       THEN RaisedError("RuntimeError", <<"Console received malformed message">>, n)
       ELSE IF message.t = "atom"
       THEN IF message.v \in {"reply", "error"}
            THEN RaisedError("RuntimeError",
                             <<"Console received malformed message">>, n)
            ELSE RaisedError("RuntimeError",
                             <<"Console received unexpected message">>, n)
       ELSE IF Has(message, "reply")
       THEN IF \/ FieldMissing(message, "reply", "command")
               \/ FieldMissing(message, "reply", "parameters")
            THEN RaisedError("RuntimeError",
                             <<"Console received malformed message">>, n)
            ELSE Returned(Item(Item(message, "reply"), "parameters"), n)
       ELSE IF Has(message, "error")
       THEN IF \/ FieldMissing(message, "error", "source")
               \/ FieldMissing(message, "error", "message")
            THEN RaisedError("RuntimeError",
                             <<"Console received malformed message">>, n)
            ELSE RaisedError("RuntimeError",
                             ErrorText(Item(Item(message, "error"), "source"),
                                       Item(Item(message, "error"), "message")),
                             n)
       ELSE RaisedError("RuntimeError",
                        <<"Console received unexpected message">>, n)

\* The commands of the agent and the timeout of their call (None: the call
\* waits for ever).
Commands == {"status", "execute", "monitor"}

\* A console whose every call has a timeout of 30 seconds.
Timeout_AllThirty(command) == "30"

Timeout(command) ==
    IF command \in {"execute", "monitor"} THEN "None" ELSE "30"

\* The parameter objects of requests and replies.
ParameterObjects == {Obj(<<>>, <<>>), Obj(<<"cpu">>, <<Atom("1")>>)}

\* The calls an Agent makes on its console: status() sends no parameters,
\* execute() some.
AgentCalls ==
    {[command |-> "status", parameters |-> Obj(<<>>, <<>>)],
     [command |-> "execute", parameters |-> Obj(<<"cpu">>, <<Atom("1")>>)]}

\* The lines a guest agent may write: replies, two errors (the command
\* field is their source), an error without its message ("incomplete"), a
\* reply without its parameters ("headless"), a message that is neither a
\* reply nor an error, and a text that is no JSON.
AgentLines ==
    {[kind |-> "reply", command |-> "status", parameters |-> q,
      message |-> "none"] : q \in ParameterObjects}
    \cup {[kind |-> "incomplete", command |-> "execute",
            parameters |-> Obj(<<>>, <<>>), message |-> "none"]}
    \cup {[kind |-> "error", command |-> "execute",
            parameters |-> Obj(<<>>, <<>>), message |-> "spawn: denied"],
          [kind |-> "error", command |-> "execute: spawn",
            parameters |-> Obj(<<>>, <<>>), message |-> "denied"]}
    \cup {[kind |-> other, command |-> "status",
            parameters |-> Obj(<<>>, <<>>), message |-> "none"] :
              other \in {"event", "headless", "garbage"}}

\* The text of a parameter object and of a line, as the agent writes them.
ParameterText(q) ==
    IF Len(q.keys) = 0 THEN <<"{", "}">> ELSE <<"{", "cpu", ":", "1", "}">>

AgentText(l) ==
    CASE l.kind = "reply" ->
           <<"{", "reply", ":", "{", "command", ":", l.command, ",",
             "parameters", ":">> \o ParameterText(l.parameters) \o <<"}", "}">>
      [] l.kind = "error" ->
           <<"{", "error", ":", "{", "source", ":", l.command, ",",
             "message", ":", l.message, "}", "}">>
      [] l.kind = "event" -> <<"{", "event", ":", "{", "}", "}">>
      [] l.kind = "incomplete" ->
           <<"{", "error", ":", "{", "source", ":", l.command, "}", "}">>
      [] l.kind = "headless" ->
           <<"{", "reply", ":", "{", "command", ":", l.command, "}", "}">>
      [] OTHER -> <<"{", "reply", "}">>

\* ------------------------------------------------------------------------
\* The volume manager: network block devices, /proc/partitions, mounts.

\* The conductors that may share the devices of one host.
Conductors == {1, 2}

\* device_nodes(): the glob /dev/nbd?, device N standing for "nbdN".
Pool == 0..(MaxDevices - 1)

\* The partition numbers an image may hold and a caller may name.
PartitionNumbers == {1, 12}

\* The line "nbd<d>p<n>" of /proc/partitions; partition(device, number)
\* builds the same name.
Entry(d, n) == [dev |-> d, num |-> n]

\* The digit that [0-9] matches after the "p": the first of the number
\* (the numbers here have two digits at most).
FirstDigit(n) == IF n < 10 THEN n ELSE n \div 10

\* attached_device_nodes(): what nbd[0-9] finds in /proc/partitions, in
\* the lines of the connected devices and in those of their partitions.
AttachedDeviceNodes == bound \cup {e.dev : e \in parts}

\* attached_partitions(): what nbd[0-9]p[0-9] finds in /proc/partitions.
AttachedPartitions == {Entry(e.dev, FirstDigit(e.num)) : e \in parts}

\* A selection that takes any device of the pool.
AvailableDevices_All == Pool

\* available_device_node(): device_nodes().difference(attached_device_nodes()).
AvailableDevices == Pool \ AttachedDeviceNodes

\* The callers of the volume manager: transfer_acquired_image of the
\* fixed drive vector, FileSystemAnalyst.analyse, BlockStorageAnalyst.analyse.
Callers == {"vector", "filesystem", "block"}

\* What a caller does between attach and detach, in order.
Body(c) ==
    CASE c = "vector" -> <<"wait", "mount", "copy", "unmount">>
      [] c = "filesystem" -> <<"wait", "mount", "hash", "unmount">>
      [] OTHER -> <<"wait", "hash">>

\* The analysts run their body inside try: ... finally: volume.detach(device);
\* the vector has no try.
Guarded(c) == c # "vector"

NoDevice == -1

\* A conductor that has called nothing yet.
NoRun ==
    [caller |-> "none", pc |-> "idle", dev |-> NoDevice, num |-> 0,
     seen |-> {}, at |-> 0, exc |-> FALSE, trace |-> <<>>, runs |-> 0]

\* The caller after the step op of its body returned (ok) or raised.
Advance(v, op, ok) ==
    LET t == Append(v.trace, <<op, ok>>)
    IN IF ok
       THEN IF v.at < Len(Body(v.caller))
            THEN [v EXCEPT !.trace = t, !.at = @ + 1]
            ELSE [v EXCEPT !.trace = t, !.pc = "detach"]
       ELSE IF Guarded(v.caller)
            THEN [v EXCEPT !.trace = t, !.pc = "detach", !.exc = TRUE]
            ELSE [v EXCEPT !.trace = t, !.pc = "raised"]

\* The step of its body a caller is at.
AtStep(v) == IF v.pc = "body" THEN Body(v.caller)[v.at] ELSE "none"

\* ------------------------------------------------------------------------
\* The history of calls.
Call(op, id, inst, a, ok) ==
    [op |-> op, id |-> id, inst |-> inst, a |-> a, ok |-> ok]

\* ------------------------------------------------------------------------
\* Before conduct is called: no definition, nothing minted, nothing called.
Init ==
    /\ executions = 0
    /\ technique = Unregistered
    /\ parameters = EmptyDict
    /\ analysts = <<>>
    /\ identities = <<>>
    /\ minted = 0
    /\ pos = 0
    /\ execution = 0
    /\ tech = NewTechnique(0)
    /\ ninst = 0
    /\ k = 0
    /\ table = <<>>
    /\ pc = "idle"
    /\ failures = 0
    /\ calls = <<>>
    /\ klass = NoClass
    /\ raised = "none"
    /\ served = NoHook
    /\ components = EmptyDict
    /\ registered = <<>>
    /\ got = NoGet
    /\ wire = <<>>
    /\ buffer = <<>>
    /\ sent = <<>>
    /\ cpc = "ready"
    /\ result = NoResult
    /\ requests = <<>>
    /\ written = <<>>
    /\ decoded = 0
    /\ split = FALSE
    /\ bound = {}
    /\ parts = {}
    /\ mounted = {}
    /\ vol = [p \in Conductors |-> NoRun]
    /\ attachedVector = FALSE

\* conduct(definition) is entered with a definition of n executions of
\* technique t with parameters p and the analysts named in al:
\* identities = [uuid.uuid4() for i in range(definition.executions)].
Enter(n, t, p, al) ==
    /\ pc = "idle"
    /\ executions' = n
    /\ technique' = t
    /\ parameters' = p
    /\ analysts' = al
    /\ identities' = [i \in 1..n |-> Uuid4(i - 1)]
    /\ minted' = n
    /\ table' = [a \in DOMAIN al |-> EmptyDict]
    /\ pc' = "start"
    /\ UNCHANGED <<elsewhere, klass, raised, pos, execution, tech, ninst, k,
                   failures, calls>>

Conduct ==
    /\ pc = "idle"
    /\ \E n \in 0..MaxExec, t \in TechniqueNames \cup {Unregistered},
          al \in AnalystLists :
           \E p \in ParameterDicts(t) : Enter(n, t, p, al)

\* analysts = get_analysts(definition): interface.analysts.get raises a
\* KeyError for a name that is not registered, and conduct is left.
GetAnalysts ==
    /\ pc = "start"
    /\ IF \A a \in DOMAIN analysts : analysts[a] \in AnalystNames
       THEN pc' = "loop" /\ raised' = raised
       ELSE pc' = "aborted" /\ raised' = "KeyError"
    /\ UNCHANGED <<elsewhere, parameters, klass, executions, technique,
                   analysts, identities, pos, minted, execution, tech, ninst,
                   k, table, failures, calls>>

\* Where conduct goes when a loop over the analysts starts: at the first
\* analyst, or past the loop when there is none.
First(inner, after) == IF Len(analysts) = 0 THEN after ELSE inner

\* for execution in identities: the list iterator reads the length of the
\* list at every step, so appended identities are visited.
Iterate ==
    /\ pc = "loop"
    /\ IF pos < Len(identities)
       THEN /\ execution' = identities[pos + 1]
            /\ pos' = pos + 1
            /\ pc' = "construct"
            /\ k' = k
       ELSE /\ pc' = First("collate", "done")
            /\ k' = 1
            /\ UNCHANGED <<execution, pos>>
    /\ UNCHANGED <<elsewhere, raised, parameters, klass, executions, technique, analysts, identities, minted, tech,
                   ninst, table, failures, calls>>

\* A conduct that builds its technique once and uses it for every identity.
GetTechnique_Reuse ==
    /\ pc = "construct"
    /\ IF technique \in TechniqueNames /\ Composable(technique, parameters)
       THEN /\ tech' = IF ninst = 0 THEN NewTechnique(1) ELSE tech
            /\ ninst' = 1
            /\ klass' = Inheritance(technique, parameters)
            /\ pc' = "allocate"
            /\ raised' = raised
       ELSE /\ pc' = "aborted"
            /\ raised' = IF technique \in TechniqueNames
                         THEN "RuntimeError" ELSE "KeyError"
            /\ UNCHANGED <<tech, ninst, klass>>
    /\ UNCHANGED <<elsewhere, parameters, executions, technique, analysts,
                   identities, pos, minted, execution, k, table, failures,
                   calls>>

\* A conductor whose try statement includes the construction.
GetTechnique_InsideTry ==
    /\ pc = "construct"
    /\ IF technique \in TechniqueNames /\ Composable(technique, parameters)
       THEN /\ tech' = NewTechnique(ninst + 1)
            /\ ninst' = ninst + 1
            /\ klass' = Inheritance(technique, parameters)
            /\ pc' = "allocate"
            /\ raised' = raised
       ELSE /\ pc' = "except"
            /\ UNCHANGED <<tech, ninst, klass, raised>>
    /\ UNCHANGED <<elsewhere, parameters, executions, technique, analysts,
                   identities, pos, minted, execution, k, table, failures,
                   calls>>

\* technique = get_technique(definition): interface.techniques.get raises
\* a KeyError for a name that is not registered, a factory a RuntimeError
\* when a behaviour cannot be looked up; either leaves conduct.
GetTechnique ==
    /\ pc = "construct"
    /\ IF technique \in TechniqueNames /\ Composable(technique, parameters)
       THEN /\ tech' = NewTechnique(ninst + 1)
            /\ ninst' = ninst + 1
            /\ klass' = Inheritance(technique, parameters)
            /\ pc' = "allocate"
            /\ raised' = raised
       ELSE /\ pc' = "aborted"
            /\ raised' = IF technique \in TechniqueNames
                         THEN "RuntimeError" ELSE "KeyError"
            /\ UNCHANGED <<tech, ninst, klass>>
    /\ UNCHANGED <<elsewhere, parameters, executions, technique, analysts,
                   identities, pos, minted, execution, k, table, failures,
                   calls>>

\* A handler that appends the replacement without discarding anything.
Except_NoDiscard == /\ failures' = failures + 1
                    /\ pc' = "requeue"
                    /\ k' = 1

\* The except clause is entered.
Except == /\ failures' = failures + 1
          /\ pc' = First("except", "requeue")
          /\ k' = 1

\* technique.allocate(); step f of it raises (0: none).
Allocate ==
    /\ pc = "allocate"
    /\ \E f \in 0..Len(AllocateSteps(technique)) :
        /\ f # 0 => failures < MaxFail
        /\ LET n == IF f = 0 THEN Len(AllocateSteps(technique)) ELSE f - 1
           IN tech' = [tech EXCEPT
                  !.output = @ \cup Range(Prefix(AllocateSteps(technique), n)),
                  !.state = "allocated"]
        /\ calls' = Append(calls, Call("allocate", execution, tech.inst, 0, f = 0))
        /\ IF f = 0
           THEN pc' = "sample" /\ UNCHANGED <<failures, k>>
           ELSE Except
    /\ UNCHANGED <<elsewhere, raised, parameters, klass, executions, technique, analysts, identities, pos, minted,
                   execution, ninst, table>>

\* technique.sample(); step f of it raises (0: none).  A step that raises
\* while it writes a file leaves the file or not.
SampleEnds(f, partial) ==
    /\ f # 0 => failures < MaxFail
    /\ partial => f # 0 /\ StepFile(technique, SampleSteps(technique)[f]) # {}
    /\ LET done == SampleDone(technique, f)
           left == IF partial
                   THEN StepFile(technique, SampleSteps(technique)[f])
                   ELSE {}
       IN tech' = [tech EXCEPT
              !.output = @ \cup UNION {StepSlots(s) : s \in done},
              !.files = @ \cup left
                          \cup UNION {StepFile(technique, s) : s \in done},
              !.trace = SampleTrace(technique, f),
              !.state = "sampled"]
    /\ attachedVector' = (attachedVector \/ LeavesAttached(technique, f))
    /\ calls' = Append(calls, Call("sample", execution, tech.inst, 0, f = 0))
    /\ IF f = 0
       THEN /\ pc' = First("analyse", "release")
            /\ k' = 1
            /\ UNCHANGED failures
       ELSE Except

Sample ==
    /\ pc = "sample"
    /\ \E f \in {0} \cup FailPoints(technique), partial \in BOOLEAN :
          SampleEnds(f, partial)
    /\ UNCHANGED <<hookVars, regVars, consoleVars, volVars, raised, parameters, klass, executions, technique, analysts, identities, pos, minted,
                   execution, ninst, table>>

\* ExperimentMetadataAnalyst.analyse stores the sample under the identity
\* and raises nothing; SampleMetadataAnalyst.analyse dumps the slots to a
\* file named after the identity, which can fail before or after the file
\* was created.
AnalystCanFail(name) == name = "sample-metadata"

\* An inner loop that leaves after its first analyst.
Analyse_OnlyFirst ==
    /\ pc = "analyse"
    /\ \E ok \in BOOLEAN, partial \in BOOLEAN :
        /\ ~ok => AnalystCanFail(analysts[k]) /\ failures < MaxFail
        /\ partial => ~ok
        /\ table' = IF ok \/ partial
                    THEN [table EXCEPT ![k] = DictSet(@, execution, tech.inst)]
                    ELSE table
        /\ calls' = Append(calls, Call("analyse", execution, tech.inst, k, ok))
        /\ IF ok
           THEN pc' = "release" /\ k' = k /\ UNCHANGED failures
           ELSE Except
    /\ UNCHANGED <<elsewhere, raised, parameters, klass, executions, technique, analysts, identities, pos, minted,
                   execution, tech, ninst>>

\* An analyst that leaves a mark in the sample it was given.
Analyse_MarksSample ==
    /\ pc = "analyse"
    /\ \E ok \in BOOLEAN, partial \in BOOLEAN :
        /\ ~ok => AnalystCanFail(analysts[k]) /\ failures < MaxFail
        /\ partial => ~ok
        /\ table' = IF ok \/ partial
                    THEN [table EXCEPT ![k] = DictSet(@, execution, tech.inst)]
                    ELSE table
        /\ tech' = [tech EXCEPT !.output = @ \cup {"analysed"}]
        /\ calls' = Append(calls, Call("analyse", execution, tech.inst, k, ok))
        /\ IF ok
           THEN /\ IF k < Len(analysts)
                   THEN pc' = "analyse" /\ k' = k + 1
                   ELSE pc' = "release" /\ k' = k
                /\ UNCHANGED failures
           ELSE Except
    /\ UNCHANGED <<elsewhere, raised, parameters, klass, executions, technique, analysts, identities, pos, minted,
                   execution, ninst>>

\* analyst.analyse(execution, technique.output) for analyst k.
Analyse ==
    /\ pc = "analyse"
    /\ \E ok \in BOOLEAN, partial \in BOOLEAN :
        /\ ~ok => AnalystCanFail(analysts[k]) /\ failures < MaxFail
        /\ partial => ~ok
        /\ table' = IF ok \/ partial
                    THEN [table EXCEPT ![k] = DictSet(@, execution, tech.inst)]
                    ELSE table
        /\ calls' = Append(calls, Call("analyse", execution, tech.inst, k, ok))
        /\ IF ok
           THEN /\ IF k < Len(analysts)
                   THEN pc' = "analyse" /\ k' = k + 1
                   ELSE pc' = "release" /\ k' = k
                /\ UNCHANGED failures
           ELSE Except
    /\ UNCHANGED <<elsewhere, raised, parameters, klass, executions, technique, analysts, identities, pos, minted,
                   execution, tech, ninst>>

\* A discard that leaves the record where it is.
Discard_KeepsRecord ==
    /\ pc = "except"
    /\ calls' = Append(calls, Call("discard", execution, tech.inst, k, TRUE))
    /\ IF k < Len(analysts)
       THEN pc' = "except" /\ k' = k + 1
       ELSE pc' = "requeue" /\ k' = k
    /\ UNCHANGED <<elsewhere, raised, parameters, klass, executions, technique, analysts, identities, pos, minted,
                   execution, tech, ninst, failures, table>>

\* A discard that empties the table.
Discard_ClearsTable ==
    /\ pc = "except"
    /\ table' = [table EXCEPT ![k] = EmptyDict]
    /\ calls' = Append(calls, Call("discard", execution, tech.inst, k, TRUE))
    /\ IF k < Len(analysts)
       THEN pc' = "except" /\ k' = k + 1
       ELSE pc' = "requeue" /\ k' = k
    /\ UNCHANGED <<elsewhere, raised, parameters, klass, executions, technique, analysts, identities, pos, minted,
                   execution, tech, ninst, failures>>

\* analyst.discard(execution) for analyst k: the record is removed if it is
\* there; a missing record (KeyError, OSError) is ignored.
Discard ==
    /\ pc = "except"
    /\ table' = [table EXCEPT ![k] = DictDel(@, execution)]
    /\ calls' = Append(calls, Call("discard", execution, tech.inst, k, TRUE))
    /\ IF k < Len(analysts)
       THEN pc' = "except" /\ k' = k + 1
       ELSE pc' = "requeue" /\ k' = k
    /\ UNCHANGED <<elsewhere, raised, parameters, klass, executions, technique, analysts, identities, pos, minted,
                   execution, tech, ninst, failures>>

\* A handler whose release is not in a finally clause.
Requeue_NoFinally ==
    /\ pc = "requeue"
    /\ identities' = Append(identities, Uuid4(minted))
    /\ minted' = minted + 1
    /\ pc' = "loop"
    /\ UNCHANGED <<elsewhere, raised, parameters, klass, executions, technique, analysts, pos, execution, tech,
                   ninst, k, table, failures, calls>>

\* A handler that schedules no replacement.
Requeue_NoAppend ==
    /\ pc = "requeue"
    /\ pc' = "release"
    /\ UNCHANGED <<elsewhere, raised, parameters, klass, executions, technique, analysts, identities, minted, pos,
                   execution, tech, ninst, k, table, failures, calls>>

\* A handler that retries under the identity that failed.
Requeue_RetrySame ==
    /\ pc = "requeue"
    /\ identities' = Append(identities, execution)
    /\ minted' = minted
    /\ pc' = "release"
    /\ UNCHANGED <<elsewhere, raised, parameters, klass, executions, technique, analysts, pos, execution, tech,
                   ninst, k, table, failures, calls>>

\* identities.append(uuid.uuid4())
Requeue ==
    /\ pc = "requeue"
    /\ identities' = Append(identities, Uuid4(minted))
    /\ minted' = minted + 1
    /\ pc' = "release"
    /\ UNCHANGED <<elsewhere, raised, parameters, klass, executions, technique, analysts, pos, execution, tech,
                   ninst, k, table, failures, calls>>

\* A conductor that may release the technique while the analysts are at
\* work on its sample.
Release_BeforeAnalysts ==
    /\ pc \in {"analyse", "release"}
    /\ tech.state = "sampled"
    /\ tech' = [tech EXCEPT !.files = ReleaseFiles(technique, tech),
                            !.state = "released"]
    /\ calls' = Append(calls, Call("release", execution, tech.inst, 0,
                                   ~ReleaseRaises(technique, tech)))
    /\ pc' = IF pc = "analyse" THEN "analyse"
             ELSE IF ReleaseRaises(technique, tech) THEN "aborted" ELSE "loop"
    /\ raised' = IF pc = "release" /\ ReleaseRaises(technique, tech)
                 THEN ReleaseError(technique, tech) ELSE raised
    /\ UNCHANGED <<elsewhere, parameters, klass, executions, technique, analysts, identities, pos, minted,
                   execution, ninst, k, table, failures>>

\* finally: technique.release().  An exception it raises leaves conduct.
Release ==
    /\ pc = "release"
    /\ tech' = [tech EXCEPT !.files = ReleaseFiles(technique, tech),
                            !.state = "released"]
    /\ calls' = Append(calls, Call("release", execution, tech.inst, 0,
                                   ~ReleaseRaises(technique, tech)))
    /\ pc' = IF ReleaseRaises(technique, tech) THEN "aborted" ELSE "loop"
    /\ raised' = IF ReleaseRaises(technique, tech)
                 THEN ReleaseError(technique, tech) ELSE raised
    /\ UNCHANGED <<elsewhere, parameters, klass, executions, technique, analysts, identities, pos, minted,
                   execution, ninst, k, table, failures>>

\* A final loop that leaves after its first analyst.
Collate_OnlyFirst ==
    /\ pc = "collate"
    /\ calls' = Append(calls, Call("collate", 0, 0, k, TRUE))
    /\ pc' = "done"
    /\ k' = k
    /\ UNCHANGED <<elsewhere, raised, parameters, klass, executions, technique, analysts, identities, pos, minted,
                   execution, tech, ninst, table, failures>>

\* analyst.collate() for analyst k.
Collate ==
    /\ pc = "collate"
    /\ calls' = Append(calls, Call("collate", 0, 0, k, TRUE))
    /\ IF k < Len(analysts)
       THEN pc' = "collate" /\ k' = k + 1
       ELSE pc' = "done" /\ k' = k
    /\ UNCHANGED <<elsewhere, raised, parameters, klass, executions, technique, analysts, identities, pos, minted,
                   execution, tech, ninst, table, failures>>

Next ==
    \/ Conduct
    \/ GetAnalysts
    \/ Iterate
    \/ GetTechnique
    \/ Allocate
    \/ Sample
    \/ Analyse
    \/ Discard
    \/ Requeue
    \/ Release
    \/ Collate

Spec == Init /\ [][Next]_vars

\* conduct is a sequential program: it keeps running while it can.
FairSpec == Spec /\ WF_vars(Next)

\* ------------------------------------------------------------------------
\* The composition of a technique on its own: conduct constructs the
\* technique of its first execution, and the hooks are called on it.
\* self.hook(...) on the instance get_technique returned.
CallHook ==
    /\ pc = "allocate"
    /\ \E h \in Hooks : served' = [hook |-> h, by |-> Dispatch(TypeMro(klass), h)]
    /\ UNCHANGED <<conductVars, hostVars, volVars, regVars, consoleVars>>

CompNext ==
    \/ Conduct
    \/ GetAnalysts
    \/ Iterate
    \/ GetTechnique
    \/ CallHook

CompSpec == Init /\ [][CompNext]_vars

\* ------------------------------------------------------------------------
\* A component registry on its own.
RegistryNames == {"acquisition", "control"}

RegistryComponents == {"factory", "class"}

\* A registry that keeps the first component registered under a name.
Register_KeepFirst(name, component) ==
    /\ Len(registered) < MaxRegister
    /\ components' = IF name \in DOMAIN components THEN components
                     ELSE DictSet(components, name, component)
    /\ registered' = Append(registered, <<name, component>>)
    /\ UNCHANGED <<conductVars, hostVars, volVars, hookVars, consoleVars, got>>

\* register(name, component): self.components[name] = component.
Register(name, component) ==
    /\ Len(registered) < MaxRegister
    /\ components' = DictSet(components, name, component)
    /\ registered' = Append(registered, <<name, component>>)
    /\ UNCHANGED <<conductVars, hostVars, volVars, hookVars, consoleVars, got>>

\* get(name): return self.components[name], a KeyError when the dictionary
\* has no such key.
Get(name) ==
    /\ got' = [name |-> name,
               result |-> IF name \in DOMAIN components
                          THEN components[name] ELSE "KeyError",
               at |-> Len(registered)]
    /\ UNCHANGED <<conductVars, hostVars, volVars, hookVars, consoleVars, components, registered>>

RegNext ==
    \/ \E name \in RegistryNames, component \in RegistryComponents :
          Register(name, component)
    \/ \E name \in RegistryNames : Get(name)

RegSpec == Init /\ [][RegNext]_vars

\* ------------------------------------------------------------------------
\* A guest agent console on its own.

\* call(command, parameters, timeout): self.request(command, parameters)
\* writes the text of the request and a newline; receive follows.
Request(command, params) ==
    /\ cpc = "ready"
    /\ Len(requests) < MaxCalls
    /\ sent' = sent
               \o Dumps(Obj(<<"request">>,
                            <<Obj(<<"command", "parameters">>,
                                  <<Atom(command), params>>)>>))
               \o <<"\n">>
    /\ requests' = Append(requests,
                          [command |-> command, parameters |-> params])
    /\ cpc' = "receiving"
    /\ split' = FALSE

CallRequest(command, params) ==
    /\ Request(command, params)
    /\ UNCHANGED <<conductVars, hostVars, volVars, hookVars, regVars, wire, buffer, result,
                   written, decoded>>

\* The guest agent writes a line on its end of the socket.
AgentWrite(l) ==
    /\ Len(written) < MaxLines
    /\ wire' = wire \o AgentText(l) \o <<"\n">>
    /\ written' = Append(written, l)
    /\ UNCHANGED <<conductVars, hostVars, volVars, hookVars, regVars, buffer, sent, cpc, result,
                   requests, decoded, split>>

\* self.buffer += self.socket.recv(1024), while the buffer holds no
\* newline: recv returns some of what the agent wrote, at least one byte.
Recv ==
    /\ cpc = "receiving"
    /\ ~HasLine(buffer)
    /\ \E n \in 1..Len(wire) :
          /\ buffer' = buffer \o SubSeq(wire, 1, n)
          /\ wire' = SubSeq(wire, n + 1, Len(wire))
          /\ split' = (split \/ ~HasLine(buffer \o SubSeq(wire, 1, n)))
    /\ UNCHANGED <<conductVars, hostVars, volVars, hookVars, regVars, sent, cpc, result,
                   requests, written, decoded>>

\* The timeout of the call passes inside recv: socket.timeout leaves
\* receive and call.
RecvTimeout ==
    /\ cpc = "receiving"
    /\ ~HasLine(buffer)
    /\ Timeout(requests[Len(requests)].command) # "None"
    /\ result' = RaisedError("socket.timeout", <<"timed out">>, 0)
    /\ cpc' = "ready"
    /\ UNCHANGED <<conductVars, hostVars, volVars, hookVars, regVars, wire, buffer, sent,
                   requests, written, decoded, split>>

\* A receive that decodes what the buffer holds after the first recv,
\* a whole line or not.
Decode_Partial ==
    /\ cpc = "receiving"
    /\ buffer # <<>>
    /\ buffer' = IF HasLine(buffer) THEN SplitLine(buffer).rest ELSE <<>>
    /\ decoded' = decoded + 1
    /\ result' = CallOutcome(IF HasLine(buffer) THEN SplitLine(buffer).line
                             ELSE buffer, decoded + 1)
    /\ cpc' = "ready"
    /\ UNCHANGED <<conductVars, hostVars, volVars, hookVars, regVars, wire, sent, requests,
                   written, split>>

\* A receive that leaves in the buffer a line it could not interpret.
Decode_KeepsBadLine ==
    /\ cpc = "receiving"
    /\ HasLine(buffer)
    /\ buffer' = IF CallOutcome(SplitLine(buffer).line, decoded + 1).value.t
                      = "text"
                 THEN buffer ELSE SplitLine(buffer).rest
    /\ decoded' = decoded + 1
    /\ result' = CallOutcome(SplitLine(buffer).line, decoded + 1)
    /\ cpc' = "ready"
    /\ UNCHANGED <<conductVars, hostVars, volVars, hookVars, regVars, wire, sent, requests,
                   written, split>>

\* The buffer holds a newline: receive splits the first line off, decodes
\* it, and call returns or raises.
Decode ==
    /\ cpc = "receiving"
    /\ HasLine(buffer)
    /\ buffer' = SplitLine(buffer).rest
    /\ decoded' = decoded + 1
    /\ result' = CallOutcome(SplitLine(buffer).line, decoded + 1)
    /\ cpc' = "ready"
    /\ UNCHANGED <<conductVars, hostVars, volVars, hookVars, regVars, wire, sent, requests,
                   written, split>>

ConsoleNext ==
    \/ \E c \in AgentCalls : CallRequest(c.command, c.parameters)
    \/ \E l \in AgentLines : AgentWrite(l)
    \/ Recv
    \/ RecvTimeout
    \/ Decode

ConsoleSpec == Init /\ [][ConsoleNext]_vars

\* ------------------------------------------------------------------------
\* conduct with a guest agent that does not answer.

\* The steps of the acquisition sample() that call the guest agent and
\* wait for its answer here, and the command each calls:
\* agent.status(), and the acquire hook of the intervention fragment,
\* agent.execute(...) or agent.monitor(...).
AgentSteps == {7, 10}

HookCommand(step, params) ==
    IF SampleSteps("acquisition")[step] = "status_initial" THEN "status"
    ELSE params[INTERVENTION_BEHAVIOUR_KEY]

HookParameters(step) ==
    IF SampleSteps("acquisition")[step] = "status_initial"
    THEN Obj(<<>>, <<>>) ELSE Obj(<<"cpu">>, <<Atom("1")>>)

\* sample() has run up to a step that calls the agent: the console writes
\* the request and waits in receive.
HookCall ==
    /\ pc = "sample"
    /\ technique = "acquisition"
    /\ failures < MaxFail
    /\ \E step \in AgentSteps :
          /\ Request(HookCommand(step, parameters), HookParameters(step))
          /\ tech' = [tech EXCEPT
                         !.trace = Prefix(SampleSteps(technique), step)]
    /\ pc' = "calling"
    /\ UNCHANGED <<hookVars, regVars, volVars, hostVars, wire, buffer, result,
                   written, decoded, raised, parameters, klass, executions, technique,
                   analysts, identities, pos, minted, execution, ninst, k,
                   table, failures, calls>>

\* The call raised: the exception leaves the hook and the step of
\* sample() that called it.
HookRaise ==
    /\ pc = "calling"
    /\ cpc = "ready"
    /\ result.kind \notin {"none", "return"}
    /\ SampleEnds(Len(tech.trace), FALSE)
    /\ UNCHANGED <<hookVars, regVars, consoleVars, volVars, raised, parameters, klass, executions,
                   technique, analysts, identities, pos, minted, execution,
                   ninst, table>>

\* conduct is entered with an acquisition technique that composes, one
\* execution or more, and at most one analyst.
ConductAcquisition ==
    /\ pc = "idle"
    /\ \E n \in 1..MaxExec,
          al \in {a \in AnalystLists :
                     Len(a) <= 1 /\ Unregistered \notin Range(a)} :
           \E p \in {q \in ParameterDicts("acquisition") :
                        Composable("acquisition", q)} :
               Enter(n, "acquisition", p, al)

StallNext ==
    \/ ConductAcquisition
    \/ GetAnalysts
    \/ Iterate
    \/ GetTechnique
    \/ Allocate
    \/ Sample
    \/ HookCall
    \/ RecvTimeout
    \/ HookRaise
    \/ Analyse
    \/ Discard
    \/ Requeue
    \/ Release
    \/ Collate

StallSpec == Init /\ [][StallNext]_vars

\* conduct and the console inside it keep running while they can; the
\* timeout of a socket that has one passes.
StallFairSpec == StallSpec /\ WF_vars(StallNext)

\* ------------------------------------------------------------------------
\* The callers of the volume manager on one host.

\* A selection that reserves the device in the step that reads the set.
Select_Reserving(p) ==
    /\ vol[p].pc \in {"idle", "returned", "raised"}
    /\ vol[p].runs < MaxRuns
    /\ \E c \in Callers, n \in PartitionNumbers :
          LET run == [caller |-> c, pc |-> "raised", dev |-> NoDevice,
                      num |-> n, seen |-> AttachedDeviceNodes, at |-> 1,
                      exc |-> FALSE, trace |-> <<<<"attach", FALSE>>>>,
                      runs |-> vol[p].runs + 1]
          IN IF AvailableDevices = {}
             THEN vol' = [vol EXCEPT ![p] = run] /\ bound' = bound
             ELSE \E d \in AvailableDevices :
                     /\ vol' = [vol EXCEPT ![p] =
                                   [run EXCEPT !.pc = "bind", !.dev = d,
                                               !.trace = <<>>]]
                     /\ bound' = bound \cup {d}
    /\ UNCHANGED <<conductVars, hostVars, hookVars, regVars, consoleVars, parts,
                   mounted>>

\* A caller calls volume.attach, which selects a device: the set read from
\* /proc/partitions, and any device of the pool outside it (set.pop()); an
\* empty set raises KeyError out of attach.
Select(p) ==
    /\ vol[p].pc \in {"idle", "returned", "raised"}
    /\ vol[p].runs < MaxRuns
    /\ \E c \in Callers, n \in PartitionNumbers :
          LET run == [caller |-> c, pc |-> "raised", dev |-> NoDevice,
                      num |-> n, seen |-> AttachedDeviceNodes, at |-> 1,
                      exc |-> FALSE, trace |-> <<<<"attach", FALSE>>>>,
                      runs |-> vol[p].runs + 1]
          IN IF AvailableDevices = {}
             THEN vol' = [vol EXCEPT ![p] = run]
             ELSE \E d \in AvailableDevices :
                     vol' = [vol EXCEPT ![p] =
                                [run EXCEPT !.pc = "bind", !.dev = d,
                                            !.trace = <<>>]]
    /\ UNCHANGED <<conductVars, hostVars, hookVars, regVars, consoleVars, bound, parts,
                   mounted>>

\* qemu-nbd -c connects the image to the selected device and attach
\* returns it, or fails; it fails on a device that is connected already.
Bind(p) ==
    /\ vol[p].pc = "bind"
    /\ \E ok \in BOOLEAN :
          /\ ok => vol[p].dev \notin bound
          /\ bound' = IF ok THEN bound \cup {vol[p].dev} ELSE bound
          /\ vol' = [vol EXCEPT ![p] =
                        [@ EXCEPT !.pc = IF ok THEN "body" ELSE "raised",
                                  !.trace = Append(@, <<"attach", ok>>)]]
    /\ UNCHANGED <<conductVars, hostVars, hookVars, regVars, consoleVars, parts,
                   mounted>>

\* The kernel reads the partition table of a connected image: a
\* partition line appears in /proc/partitions.
KernelAppear ==
    /\ \E d \in bound, n \in PartitionNumbers :
          /\ Entry(d, n) \notin parts
          /\ parts' = parts \cup {Entry(d, n)}
    /\ UNCHANGED <<conductVars, hostVars, hookVars, regVars, consoleVars, bound,
                   mounted, vol>>

\* wait_for_partition: the loop is left by the read of /proc/partitions
\* that finds the name; until then it sleeps and reads again.
WaitForPartition(p) ==
    /\ AtStep(vol[p]) = "wait"
    /\ Entry(vol[p].dev, vol[p].num) \in AttachedPartitions
    /\ vol' = [vol EXCEPT ![p] = Advance(@, "wait", TRUE)]
    /\ UNCHANGED <<conductVars, hostVars, hookVars, regVars, consoleVars, bound, parts,
                   mounted>>

\* volume.mount: mount of the partition device, which fails when there is
\* no such partition, and may fail when there is.
Mount(p) ==
    /\ AtStep(vol[p]) = "mount"
    /\ \E ok \in BOOLEAN :
          /\ ok => Entry(vol[p].dev, vol[p].num) \in parts
          /\ mounted' = IF ok THEN mounted \cup {vol[p].dev} ELSE mounted
          /\ vol' = [vol EXCEPT ![p] = Advance(@, "mount", ok)]
    /\ UNCHANGED <<conductVars, hostVars, hookVars, regVars, consoleVars, bound, parts>>

\* shutil.copy of the acquired image, or the hashing of files or blocks.
Work(p) ==
    /\ AtStep(vol[p]) \in {"copy", "hash"}
    /\ \E ok \in BOOLEAN :
          vol' = [vol EXCEPT ![p] = Advance(@, AtStep(vol[p]), ok)]
    /\ UNCHANGED <<conductVars, hostVars, hookVars, regVars, consoleVars, bound, parts,
                   mounted>>

\* volume.unmount: umount and rmdir.
Unmount(p) ==
    /\ AtStep(vol[p]) = "unmount"
    /\ \E ok \in BOOLEAN :
          /\ mounted' = IF ok THEN mounted \ {vol[p].dev} ELSE mounted
          /\ vol' = [vol EXCEPT ![p] = Advance(@, "unmount", ok)]
    /\ UNCHANGED <<conductVars, hostVars, hookVars, regVars, consoleVars, bound, parts>>

\* volume.detach, as the last statement of the vector or in the finally
\* clause of an analyst: qemu-nbd -d, after which the exception that
\* entered the finally clause goes on.
Detach(p) ==
    /\ vol[p].pc = "detach"
    /\ \E ok \in BOOLEAN :
          /\ bound' = IF ok THEN bound \ {vol[p].dev} ELSE bound
          /\ parts' = IF ok THEN {e \in parts : e.dev # vol[p].dev} ELSE parts
          /\ vol' = [vol EXCEPT ![p] =
                        [@ EXCEPT !.pc = IF ok /\ ~vol[p].exc THEN "returned"
                                         ELSE "raised",
                                  !.trace = Append(@, <<"detach", ok>>)]]
    /\ UNCHANGED <<conductVars, hostVars, hookVars, regVars, consoleVars, mounted>>

\* One conductor on the host.
VolumeNext ==
    \/ \E p \in {1} : Select(p)
    \/ \E p \in {1} : Bind(p)
    \/ KernelAppear
    \/ \E p \in {1} : WaitForPartition(p)
    \/ \E p \in {1} : Mount(p)
    \/ \E p \in {1} : Work(p)
    \/ \E p \in {1} : Unmount(p)
    \/ \E p \in {1} : Detach(p)

VolumeSpec == Init /\ [][VolumeNext]_vars

\* The steps of the conductor; it keeps running while it can, and the loop
\* of wait_for_partition reads /proc/partitions again every 0.1 seconds.
\* The kernel owes no partition.
ConductorSteps(p) ==
    \/ Select(p)
    \/ Bind(p)
    \/ WaitForPartition(p)
    \/ Mount(p)
    \/ Work(p)
    \/ Unmount(p)
    \/ Detach(p)

VolumeFairSpec == VolumeSpec /\ WF_vars(ConductorSteps(1))

\* Two conductors on the host, each inside volume.attach.
RaceNext ==
    \/ \E p \in Conductors : Select(p)
    \/ \E p \in Conductors : Bind(p)

RaceSpec == Init /\ [][RaceNext]_vars

\* ------------------------------------------------------------------------
\* Reading the history.
Idxs(op) == {j \in DOMAIN calls : calls[j].op = op}

IdxsOf(op, inst) == {j \in Idxs(op) : calls[j].inst = inst}

\* The calls that raised inside the try block.
Raised == {j \in DOMAIN calls :
             calls[j].op \in {"allocate", "sample", "analyse"} /\ ~calls[j].ok}

\* The current execution is over.
Over == pc \in {"loop", "construct", "collate", "done", "aborted"}

OverFor(inst) == inst < ninst \/ Over

AnalyseSeq == SelectSeq(calls, LAMBDA c : c.op = "analyse")

CollateSeq == SelectSeq(calls, LAMBDA c : c.op = "collate")

Discarded == {calls[j].id : j \in Idxs("discard")}

\* The identities every analyst analysed and no analyst was asked to discard.
Kept ==
    {i \in 1..minted :
        /\ \A a \in DOMAIN analysts :
             \E j \in Idxs("analyse") :
                calls[j].id = i /\ calls[j].a = a /\ calls[j].ok
        /\ i \notin Discarded}

\* ------------------------------------------------------------------------
\* C1: every technique instance gets at most one allocate() and at most one
\* release(), the release() comes after the allocate(), and once the
\* execution is over the instance has had exactly one of each, whether
\* allocate, sample or analyse returned or raised.
C1_ReleaseOncePerAllocate ==
    \A i \in 1..ninst :
        /\ Cardinality(IdxsOf("allocate", i)) <= 1
        /\ Cardinality(IdxsOf("release", i)) <= 1
        /\ \A r \in IdxsOf("release", i) :
              \E a \in IdxsOf("allocate", i) : a < r
        /\ OverFor(i) => /\ Cardinality(IdxsOf("allocate", i)) = 1
                         /\ Cardinality(IdxsOf("release", i)) = 1

\* An instance was released after its allocate, its sample and an analyse
\* raised, each in some execution of the run.
C1_Witness ==
    /\ \E j \in Raised, r \in Idxs("release") :
          calls[j].op = "sample" /\ calls[r].inst = calls[j].inst /\ j < r
    /\ \E j \in Raised, r \in Idxs("release") :
          calls[j].op = "analyse" /\ calls[r].inst = calls[j].inst /\ j < r

\* C2: when nothing fails, conduct ends (or is left because the analysts or
\* the technique cannot be constructed), and at its end analyse was called
\* once per identity on each analyst: identity by identity in the order of
\* the queue, and within an identity analyst by analyst in declared order
\* (no call at all for zero executions).
C2_AnalyseOrder ==
    (pc = "done" /\ failures = 0) =>
        LET n == Len(analysts) IN
        /\ Len(AnalyseSeq) = executions * n
        /\ \A m \in 1..Len(AnalyseSeq) :
              /\ AnalyseSeq[m].id = identities[((m - 1) \div n) + 1]
              /\ AnalyseSeq[m].inst = ((m - 1) \div n) + 1
              /\ AnalyseSeq[m].a = ((m - 1) % n) + 1
              /\ AnalyseSeq[m].ok

C2_NoFailureCompletes ==
    /\ []C2_AnalyseOrder
    /\ <>(pc = "done" \/ failures > 0 \/ (pc = "aborted" /\ klass = NoClass))

C2_Witness ==
    /\ pc = "done" /\ failures = 0
    /\ executions >= 2 /\ Len(analysts) >= 2
    /\ Len(AnalyseSeq) = executions * Len(analysts)

\* C3 as stated: at the end of conduct analyse was called exactly
\* `executions' times on every analyst, whatever failed.
C3_Original ==
    pc = "done" =>
        \A a \in DOMAIN analysts :
            Cardinality({j \in Idxs("analyse") : calls[j].a = a}) = executions

\* C3 amended: at the end of conduct every analyst has exactly `executions'
\* analyse calls that returned and whose identity was not discarded; the
\* number of analyse calls made on it is `executions' plus the number of
\* executions that failed in the analyse of that analyst or of a later one.
C3_KeptAnalyses ==
    pc = "done" =>
        \A a \in DOMAIN analysts :
            /\ Cardinality({j \in Idxs("analyse") :
                              /\ calls[j].a = a /\ calls[j].ok
                              /\ calls[j].id \notin Discarded}) = executions
            /\ Cardinality({j \in Idxs("analyse") : calls[j].a = a})
                 = executions
                   + Cardinality({j \in Raised :
                                    calls[j].op = "analyse" /\ calls[j].a >= a})

\* conduct ended after the analyse of the second analyst raised.
C3_Witness ==
    /\ pc = "done" /\ executions >= 1
    /\ \E j \in Raised : calls[j].op = "analyse" /\ calls[j].a = 2

\* C4 as stated: at the end of conduct executions + failures identities were
\* minted, the identities every analyst analysed and none was asked to
\* discard are `executions' many, and the table of an experiment-metadata
\* analyst holds exactly those.
C4_Original ==
    pc = "done" =>
        /\ minted = executions + failures
        /\ Cardinality(Kept) = executions
        /\ \A a \in DOMAIN analysts :
              analysts[a] = "experiment-metadata" => DOMAIN table[a] = Kept

\* C4 amended: the same, when at least one analyst is registered (with no
\* analyst nothing tells a failed identity from a completed one).
C4_KeptIdentities ==
    (pc = "done" /\ Len(analysts) >= 1) =>
        /\ minted = executions + failures
        /\ Cardinality(Kept) = executions
        /\ \A a \in DOMAIN analysts :
              analysts[a] = "experiment-metadata" => DOMAIN table[a] = Kept

\* conduct ended after a failure that left a record in a table behind.
C4_Witness ==
    /\ pc = "done" /\ executions >= 1 /\ failures >= 1
    /\ \E a \in DOMAIN analysts :
          /\ analysts[a] = "experiment-metadata"
          /\ DOMAIN table[a] = Kept
          /\ \E j \in Raised : calls[j].op = "analyse" /\ calls[j].a > a

\* C5: a call that raised in the try block is followed by discard of its
\* identity on every analyst in declared order and then by release of its
\* technique, and the handler appended exactly one identity, which is new.
C5_Compensation ==
    /\ \A j \in Raised :
          LET n == Len(analysts) IN
          /\ \A a \in 1..n :
                j + a <= Len(calls) =>
                    calls[j + a] = Call("discard", calls[j].id, calls[j].inst, a, TRUE)
          /\ j + n + 1 <= Len(calls) =>
                /\ calls[j + n + 1].op = "release"
                /\ calls[j + n + 1].inst = calls[j].inst
          /\ OverFor(calls[j].inst) => j + n + 1 <= Len(calls)
    /\ Len(identities) = executions + failures
                           - (IF pc \in {"except", "requeue"} THEN 1 ELSE 0)
    /\ \A p \in (executions + 1)..Len(identities) :
          identities[p] \notin Range(Prefix(identities, p - 1))

\* An execution whose allocate raised (no analyse call for its identity)
\* was discarded by two analysts and released.
C5_Witness ==
    /\ Len(analysts) = 2
    /\ \E j \in Raised :
          /\ calls[j].op = "allocate"
          /\ j + 3 <= Len(calls)
          /\ calls[j + 2].op = "discard" /\ calls[j + 2].a = 2
          /\ calls[j + 3].op = "release"
    /\ Len(identities) = executions + 1

\* C6 as stated: once an execution failed, conduct raises nothing.
C6_Claim == ~(pc = "aborted" /\ failures > 0)

\* C7 as stated: when collate runs, every sample() that returned was
\* followed by an analyse call with its identity and sample on every
\* analyst.
C7_Original ==
    pc \in {"collate", "done"} =>
        \A j \in Idxs("sample") :
            calls[j].ok =>
                \A a \in DOMAIN analysts :
                    \E m \in Idxs("analyse") :
                        /\ m > j /\ calls[m].a = a
                        /\ calls[m].id = calls[j].id
                        /\ calls[m].inst = calls[j].inst

\* C7 amended: every sample() that returned is followed at once by analyse
\* calls with its identity and sample on the analysts in declared order, up
\* to and including the first whose analyse raises; on all of them when
\* none raises.
C7_AnalyseUntilFailure ==
    \A j \in Idxs("sample") :
        (calls[j].ok /\ OverFor(calls[j].inst)) =>
            \E last \in 0..Len(analysts) :
                /\ j + last <= Len(calls)
                /\ \A a \in 1..last :
                      /\ calls[j + a].op = "analyse"
                      /\ calls[j + a].a = a
                      /\ calls[j + a].id = calls[j].id
                      /\ calls[j + a].inst = calls[j].inst
                      /\ a < last => calls[j + a].ok
                /\ last < Len(analysts) => last >= 1 /\ ~calls[j + last].ok

\* collate ran after the first of two analysts raised on a sample.
C7_Witness ==
    /\ pc = "done" /\ Len(analysts) = 2
    /\ \E j \in Raised : calls[j].op = "analyse" /\ calls[j].a = 1
    /\ \E j \in Idxs("analyse") : calls[j].a = 2 /\ calls[j].ok

C9_IdentitiesNeverReused ==
    /\ \A p, q \in DOMAIN identities : p < q => identities[p] < identities[q]
    /\ \A i \in Range(identities) :
          Cardinality({calls[j].inst : j \in {m \in DOMAIN calls : calls[m].id = i}}) <= 1
    /\ \A j \in Raised :
          \A m \in DOMAIN calls :
              (m > j /\ calls[m].id = calls[j].id) =>
                  calls[m].op \in {"discard", "release"}

C9_Witness ==
    /\ pc = "done" /\ failures >= 2
    /\ Len(identities) = executions + 2

\* C10 as stated: while every execution so far has failed, conduct has
\* neither returned nor raised.
C10_Claim ==
    (pos >= 1 /\ failures = pos) => pc \notin {"done", "aborted"}

\* ------------------------------------------------------------------------
\* Reading the trace of sample().
TracePos(step) ==
    IF \E i \in DOMAIN tech.trace : tech.trace[i] = step
    THEN CHOOSE i \in DOMAIN tech.trace : tech.trace[i] = step
    ELSE 0

\* The steps `order' names are run in that order: one of them is run only
\* after every earlier one was run.
RunInOrder(order) ==
    \A i, j \in DOMAIN order :
        (i < j /\ TracePos(order[j]) # 0) =>
            (TracePos(order[i]) # 0 /\ TracePos(order[i]) < TracePos(order[j]))

\* C11 as stated: an acquisition sample() connects to the guest console,
\* then reverts and resumes the domain, attaches toolkit and vector, calls
\* acquire, detaches toolkit and vector, suspends, saves the memory image
\* and transfers the evidence.
C11_Original ==
    technique = "acquisition" =>
        RunInOrder(<<"agent_connect", "revert", "resume", "attach_toolkit",
                     "attach_vector", "acquire", "detach_toolkit",
                     "detach_vector", "suspend", "save_memory",
                     "volume.attach", "copy">>)

\* C11 amended: the domain is reverted first, the guest console is
\* connected after the revert and before the resume; from there on the
\* order is the stated one.
C11_SampleOrder ==
    technique = "acquisition" =>
        RunInOrder(<<"revert", "agent_connect", "resume", "attach_toolkit",
                     "attach_vector", "acquire", "detach_toolkit",
                     "detach_vector", "suspend", "save_memory",
                     "volume.attach", "copy">>)

\* An acquisition sample() ran to its end.
C11_Witness ==
    /\ technique = "acquisition" /\ tech.state = "sampled"
    /\ TracePos("sample_finish") # 0 /\ TracePos("copy") # 0

\* C12 as stated: a release() called after allocate() returned raises
\* nothing.
C12_Claim ==
    \A r \in Idxs("release") :
        (\E a \in IdxsOf("allocate", calls[r].inst) : calls[a].ok) => calls[r].ok

\* The technique operations conduct called on an instance, in order.
TechniqueOps(inst) ==
    SelectSeq(calls, LAMBDA c : c.inst = inst
                                /\ c.op \in {"allocate", "sample", "release"})

\* C13: on every instance conduct calls allocate first, sample only after
\* allocate and at most once, release last and nothing after it (analyse
\* and discard of its identity included); every instance serves one
\* identity and every identity one instance.
C13_Lifecycle ==
    /\ \A i \in 1..ninst :
          /\ TechniqueOps(i) \in
                {<<>>,
                 <<Call("allocate", identities[i], i, 0, TRUE)>>,
                 <<Call("allocate", identities[i], i, 0, FALSE)>>,
                 <<Call("allocate", identities[i], i, 0, FALSE),
                   Call("release", identities[i], i, 0, FALSE)>>}
                \cup {<<Call("allocate", identities[i], i, 0, TRUE),
                        Call("sample", identities[i], i, 0, ok)>> :
                          ok \in BOOLEAN}
                \cup {<<Call("allocate", identities[i], i, 0, TRUE),
                        Call("sample", identities[i], i, 0, ok),
                        Call("release", identities[i], i, 0, rel)>> :
                          ok \in BOOLEAN, rel \in BOOLEAN}
          /\ \A r \in IdxsOf("release", i) :
                \A j \in DOMAIN calls : (j > r) => calls[j].inst # i
    /\ \A j \in DOMAIN calls :
          calls[j].op # "collate" =>
              /\ calls[j].inst \in 1..ninst
              /\ calls[j].id = identities[calls[j].inst]
    /\ ninst = (IF pos >= 1 /\ (pc = "construct" \/ klass = NoClass)
                THEN pos - 1 ELSE pos)

\* Two instances went through their whole lifecycle, one of them with a
\* sample() that raised.
C13_Witness ==
    /\ ninst >= 2 /\ Over
    /\ Len(TechniqueOps(1)) = 3 /\ Len(TechniqueOps(2)) = 3
    /\ \E j \in Raised : calls[j].op = "sample"

\* The instances that were allocated and not yet released.
Live == {i \in 1..ninst : IdxsOf("allocate", i) # {} /\ IdxsOf("release", i) = {}}

\* C14: at most one instance is allocated and not released, and when a
\* technique is constructed the release of the one before it has returned:
\* every call on an instance comes after the release of its predecessor.
C14_Sequential ==
    /\ Cardinality(Live) <= 1
    /\ \A i \in 2..ninst :
          \E r \in IdxsOf("release", i - 1) :
              /\ calls[r].ok
              /\ \A j \in DOMAIN calls : calls[j].inst = i => j > r

\* A second technique was constructed after a failed execution.
C14_Witness ==
    /\ ninst >= 2 /\ pc = "allocate"
    /\ \E j \in Raised : calls[j].inst = 1

\* ------------------------------------------------------------------------
\* A definition that names an analyst no module registers.
UnknownAnalyst == \E a \in DOMAIN analysts : analysts[a] \notin AnalystNames

\* A definition whose technique is not registered or cannot be composed.
UnknownTechnique ==
    technique \notin TechniqueNames \/ ~Composable(technique, parameters)

\* C18 as stated: for every number of executions, zero included, a
\* definition whose analyst or technique cannot be constructed never brings
\* conduct to collate or to its end.
C18_Original ==
    (pc # "idle" /\ (UnknownAnalyst \/ UnknownTechnique)) =>
        pc \notin {"collate", "done"}

\* C18 amended: an analyst that cannot be constructed ends conduct for
\* every number of executions, a technique that cannot be constructed for
\* every number of executions from one on; conduct is left before any
\* call on a technique or an analyst: nothing is discarded, no identity is
\* appended, collate is not called.  (With zero executions the technique
\* is never looked up.)
C18_ConstructionIsFatal ==
    (pc # "idle" /\ (UnknownAnalyst \/ (executions >= 1 /\ UnknownTechnique))) =>
        /\ pc \in {"start", "loop", "construct", "aborted"}
        /\ calls = <<>>
        /\ failures = 0
        /\ identities = [i \in 1..executions |-> i]
        /\ minted = executions
        /\ UnknownAnalyst => pos = 0
        /\ pos <= 1
        /\ pc = "aborted" =>
              raised = (IF ~UnknownAnalyst /\ technique \in TechniqueNames
                        THEN "RuntimeError" ELSE "KeyError")

\* conduct was left at the construction of the technique of its first
\* execution, with analysts constructed.
C18_Witness ==
    /\ pc = "aborted" /\ pos = 1
    /\ technique \notin TechniqueNames
    /\ Len(analysts) >= 1 /\ ~UnknownAnalyst
    /\ executions >= 2

\* ------------------------------------------------------------------------
\* The fragment a parameter selects on an axis, "none" when the parameter
\* is absent or names no fragment of the axis.
Fragment(key, classes) ==
    IF key \in DOMAIN parameters /\ parameters[key] \in DOMAIN classes
    THEN classes[parameters[key]] ELSE "none"

\* The providers of a technique in the stated order: intervention, toolkit
\* and vector fragment, then the base technique (delay fragment, then the
\* base technique, for control).
Providers ==
    CASE technique = "acquisition" ->
           <<Fragment("technique.behaviour.intervention",
                      [n \in {"execute", "monitor"} |->
                          IF n = "execute" THEN "ExecuteInterventionBehaviour"
                          ELSE "MonitorInterventionBehaviour"]),
             Fragment("technique.behaviour.toolkit",
                      [n \in {"optical"} |-> "OpticalAcquisitionToolkit"]),
             Fragment("technique.behaviour.vector",
                      [n \in {"fixed-drive"} |-> "FixedDriveAcquisitionVector"]),
             "AcquisitionTechnique">>
      [] technique = "control" ->
           <<Fragment("technique.behaviour.delay",
                      [n \in {"fixed", "random"} |->
                          IF n = "fixed" THEN "FixedDelayBehaviour"
                          ELSE "RandomDelayBehaviour"]),
             "ControlTechnique">>
      [] technique = "initial-state" -> <<"InitialStateTechnique">>
      [] OTHER -> <<>>

\* The hooks a technique calls on itself in allocate, sample and release.
RequiredHooks ==
    CASE technique = "acquisition" ->
           {"attach_toolkit", "detach_toolkit", "attach_vector", "acquire",
            "detach_vector", "transfer_acquired_image", "allocate_behaviour",
            "release_behaviour"}
      [] technique = "control" -> {"idle"}
      [] OTHER -> {}

\* The providers whose class body defines a hook with a body that does
\* something else than raise NotImplementedError.
Implementers(h) ==
    {i \in DOMAIN Providers :
        h \in ClassMethods(Providers[i]) /\ h \notin Abstract(Providers[i])}

\* The providers whose class body defines a hook.
Definers(h) == {i \in DOMAIN Providers : h \in ClassMethods(Providers[i])}

\* C15: a hook called on a composed technique is served by the first
\* provider, in the order intervention, toolkit, vector, base technique
\* (delay, base technique for control), whose class defines the hook.
C15_FirstProviderServes ==
    (served # NoHook /\ served.hook \in RequiredHooks) =>
        /\ Definers(served.hook) # {}
        /\ \E i \in Definers(served.hook) :
              /\ served.by = Providers[i]
              /\ \A j \in Definers(served.hook) : i <= j

\* acquire, which the intervention fragment and the base technique both
\* define, was called on a composed acquisition technique, and so was
\* attach_toolkit, which the toolkit fragment and the base both define.
C15_Witness ==
    /\ technique = "acquisition"
    /\ served.hook = "acquire"
    /\ served.by = "MonitorInterventionBehaviour"
    /\ Cardinality(Definers("acquire")) = 2
    /\ Cardinality(Definers("attach_toolkit")) = 2

\* get_technique was called and has returned or raised.
TechniqueRequested == pos >= 1 /\ pc # "construct"

\* The parameter of some axis of the technique is absent or names no
\* fragment of the axis.
BadAxis == \E i \in DOMAIN Providers : Providers[i] = "none"

\* C16: when the parameter of an axis is absent or names no fragment of the
\* axis, get_technique raises the composition error, and no class is made
\* and no instance created.
C16_UnknownFragmentFails ==
    (BadAxis /\ TechniqueRequested) =>
        /\ pc = "aborted"
        /\ raised = "RuntimeError"
        /\ klass = NoClass
        /\ ninst = 0
        /\ tech = NewTechnique(0)
        /\ served = NoHook

\* The construction of an acquisition technique failed on a vector name
\* that is no vector, toolkit and intervention being known ones.
C16_Witness ==
    /\ pc = "aborted" /\ raised = "RuntimeError"
    /\ technique = "acquisition"
    /\ Providers[1] # "none" /\ Providers[2] # "none"
    /\ "technique.behaviour.vector" \in DOMAIN parameters
    /\ Providers[3] = "none"

\* C17: a technique is constructed only when every hook it requires has a
\* provider that implements it; a constructed technique serves every
\* required hook by an implementation, never by a body that raises
\* NotImplementedError or by none at all.
C17_RequiredHooksImplemented ==
    /\ (TechniqueRequested /\ \E h \in RequiredHooks : Implementers(h) = {}) =>
            /\ pc = "aborted" /\ raised = "RuntimeError"
            /\ klass = NoClass /\ ninst = 0
    /\ klass # NoClass =>
            \A h \in RequiredHooks :
                /\ Dispatch(TypeMro(klass), h) # "AttributeError"
                /\ h \notin Abstract(Dispatch(TypeMro(klass), h))
    /\ (served # NoHook /\ served.hook \in RequiredHooks) =>
            served.hook \notin Abstract(served.by)

\* The construction failed with no toolkit fragment, so with no provider
\* that implements attach_toolkit.
C17_Witness ==
    /\ pc = "aborted" /\ raised = "RuntimeError"
    /\ technique = "acquisition"
    /\ "technique.behaviour.toolkit" \notin DOMAIN parameters
    /\ Implementers("attach_toolkit") = {}
    /\ Implementers("acquire") # {} /\ Implementers("attach_vector") # {}

\* ------------------------------------------------------------------------
\* The register calls among the first n that name a component.
RegisteredAs(name, n) == {i \in 1..n : registered[i][1] = name}

Last(S) == CHOOSE i \in S : \A j \in S : j <= i

\* C19: the registry holds exactly the names that were ever registered,
\* each with the component of the latest register call under that name (no
\* entry is ever removed, a later register overwrites); get(name) returned
\* that component, and raised the KeyError when no register call had named
\* the component.
C19_LastRegisteredWins ==
    /\ DOMAIN components = {registered[i][1] : i \in DOMAIN registered}
    /\ \A name \in DOMAIN components :
          components[name] =
              registered[Last(RegisteredAs(name, Len(registered)))][2]
    /\ got # NoGet =>
          got.result =
              (IF RegisteredAs(got.name, got.at) = {} THEN "KeyError"
               ELSE registered[Last(RegisteredAs(got.name, got.at))][2])

\* get returned the second of two different components registered under
\* one name, while the other name was never registered.
C19_Witness ==
    /\ got.at = 2 /\ Len(registered) = 2
    /\ registered[1][1] = got.name /\ registered[2][1] = got.name
    /\ registered[1][2] # registered[2][2]
    /\ got.result = registered[2][2]
    /\ DOMAIN components = {got.name}

\* ------------------------------------------------------------------------
\* The lines of a text that ends in a newline.
RECURSIVE Lines(_)
Lines(b) ==
    IF ~HasLine(b) THEN <<>>
    ELSE <<SplitLine(b).line>> \o Lines(SplitLine(b).rest)

\* The request line of a call, token by token.
RequestText(r) ==
    <<"{", "request", ":", "{", "command", ":", r.command, ",",
      "parameters", ":">> \o ParameterText(r.parameters) \o <<"}", "}">>

\* C20: the console has written one line per call, the text of the
\* request of that call, and nothing else; a call whose receive took a
\* line that the agent wrote as a reply returned the parameters object of
\* that reply.
C20_CallReturnsReplyParameters ==
    /\ sent = <<>> \/ sent[Len(sent)] = "\n"
    /\ Lines(sent) = [i \in DOMAIN requests |-> RequestText(requests[i])]
    /\ (result.line >= 1 /\ written[result.line].kind = "reply") =>
          result = Returned(written[result.line].parameters, result.line)

\* The second of two calls returned the parameters {"cpu": "1"} of the
\* reply that was the second line on the wire, the first line being a
\* reply with other parameters.
C20_Witness ==
    /\ Len(requests) = 2 /\ cpc = "ready"
    /\ result = Returned(Obj(<<"cpu">>, <<Atom("1")>>), 2)
    /\ written[1].kind = "reply" /\ written[1].parameters = Obj(<<>>, <<>>)
    /\ written[2].kind = "reply"

\* ------------------------------------------------------------------------
\* Errors of the guest agent.

\* The error lines the agent may write whose call raises the same exception
\* as the line l.
SameException(l) ==
    {m \in AgentLines :
        /\ m.kind = "error"
        /\ CallOutcome(AgentText(m), 1) = CallOutcome(AgentText(l), 1)}

RECURSIVE WireText(_)
WireText(ls) ==
    IF Len(ls) = 0 THEN <<>>
    ELSE AgentText(Head(ls)) \o <<"\n">> \o WireText(Tail(ls))

\* C22: receive takes whole lines only, in the order written: what the
\* buffer and the socket still hold is the text of the lines not yet
\* decoded, however recv cut that text; and the outcome of a call is the
\* outcome of decoding the whole line it took, whatever the reads were.
C22_DecodesWholeLines ==
    /\ decoded <= Len(written)
    /\ buffer \o wire = WireText(SubSeq(written, decoded + 1, Len(written)))
    /\ result.line >= 1 =>
          /\ result.line <= decoded
          /\ result = CallOutcome(AgentText(written[result.line]), result.line)

\* A call whose line came in more than one read returned the parameters
\* {"cpu": "1"} of the reply.
C22_Witness ==
    /\ cpc = "ready" /\ split /\ decoded = 1
    /\ written[1].kind = "reply"
    /\ result = Returned(Obj(<<"cpu">>, <<Atom("1")>>), 1)

\* ------------------------------------------------------------------------
\* Protocol errors.

Malformed(n) ==
    RaisedError("RuntimeError", <<"Console received malformed message">>, n)

Unexpected(n) ==
    RaisedError("RuntimeError", <<"Console received unexpected message">>, n)

\* C23: a call whose receive took a line that is no JSON, or a reply or an
\* error that lacks a field, raised the RuntimeError of a malformed
\* message; one whose line is JSON but neither reply nor error raised the
\* RuntimeError of an unexpected message; neither returned a result.
C23_ProtocolError ==
    result.line >= 1 =>
        /\ written[result.line].kind \in {"garbage", "incomplete", "headless"}
              => result = Malformed(result.line)
        /\ written[result.line].kind = "event"
              => result = Unexpected(result.line)

\* Two calls in a row: the first took a text that is no JSON, the
\* second a message that lacks a field or is neither reply nor
\* error, and the second raised as the first had.
C23_Witness ==
    /\ cpc = "ready" /\ Len(requests) = 2 /\ decoded = 2
    /\ written[1].kind = "garbage"
    /\ written[2].kind \in {"headless", "incomplete", "event"}
    /\ result.kind = "RuntimeError" /\ result.line = 2

\* ------------------------------------------------------------------------
\* A guest agent that never answers.

\* sample() waits for the answer to a call the console makes with a
\* timeout, and with none.
StalledTimed ==
    /\ pc = "calling" /\ cpc = "receiving"
    /\ requests[Len(requests)].command = "status"

StalledUnbounded ==
    /\ pc = "calling" /\ cpc = "receiving"
    /\ requests[Len(requests)].command \in {"execute", "monitor"}

\* C24 as stated: when the agent never answers the command of the acquire
\* hook, the call fails in the end and release() is called on the
\* technique.
C24_Original == StalledUnbounded ~> (tech.state = "released")

\* C24: a call made with a timeout and never answered fails in the end and
\* release() is called on the technique; the call of the acquire hook,
\* execute or monitor, has no timeout, and when it is never answered
\* sample() stays inside it for ever: nothing fails and release() is not
\* called.
C24_OnlyTimedCallsEnd ==
    /\ StalledTimed ~> (tech.state = "released")
    /\ [](StalledUnbounded => [](StalledUnbounded /\ tech.state = "allocated"))

\* The acquire hook of the second execution waits for the answer to
\* monitor, after the status call of the first execution timed out and
\* its technique was released.
C24_Witness ==
    /\ StalledUnbounded
    /\ requests[Len(requests)].command = "monitor"
    /\ Len(requests) = 2 /\ requests[1].command = "status"
    /\ result.kind = "socket.timeout"
    /\ IdxsOf("release", 1) # {} /\ tech.inst = 2
    /\ tech.trace = Prefix(SampleSteps("acquisition"), 10)

\* ------------------------------------------------------------------------
\* The volume manager.

\* Did the call of op in the run v return?
Returns(v, op) == \E i \in DOMAIN v.trace : v.trace[i] = <<op, TRUE>>

\* C25: with one conductor, the device attach has selected and the device
\* it connected and returned are devices of the pool outside the set it
\* read from /proc/partitions, and the device it is about to connect is
\* connected to nothing.
C25_AttachTakesFreeDevice ==
    /\ vol[2] = NoRun
    /\ (vol[1].pc = "bind" \/ Returns(vol[1], "attach")) =>
          /\ vol[1].dev \in Pool
          /\ vol[1].dev \notin vol[1].seen
    /\ vol[1].pc = "bind" => vol[1].dev \notin AttachedDeviceNodes

\* The second attach of the conductor read that device 0 is attached,
\* left there by its first caller, and returned device 1.
C25_Witness ==
    /\ vol[1].runs = 2 /\ Returns(vol[1], "attach") /\ vol[1].pc = "body"
    /\ vol[1].seen = {0} /\ vol[1].dev = 1
    /\ bound = {0, 1}

\* The calls of op in the run v, by their place in it.
Calls(v, op) == {i \in DOMAIN v.trace : v.trace[i][1] = op}

\* The run v is over.
Ended(v) == v.pc \in {"returned", "raised"}

\* C26 as stated: in a run of any caller where attach returned and
\* wait_for_partition, mount, the copy or the hashing raised, detach was
\* called exactly once.
C26_Claim ==
    \A p \in Conductors :
        (/\ Ended(vol[p])
         /\ Returns(vol[p], "attach")
         /\ \E i \in DOMAIN vol[p].trace :
               /\ vol[p].trace[i][1] \in {"wait", "mount", "copy", "hash"}
               /\ ~vol[p].trace[i][2])
        => Cardinality(Calls(vol[p], "detach")) = 1

\* C27 as stated: in a run where mount returned, unmount was called
\* exactly once, whatever raised after the mount, and before detach.
C27_Claim ==
    \A p \in Conductors :
        (Ended(vol[p]) /\ Returns(vol[p], "mount")) =>
            /\ Cardinality(Calls(vol[p], "unmount")) = 1
            /\ \A u \in Calls(vol[p], "unmount"), d \in Calls(vol[p], "detach") :
                  u < d

\* C28: the selection of a device is a read and nothing more: the step in
\* which a conductor selects its device connects nothing and changes no
\* line of /proc/partitions, so the device it selected is still one that
\* available_device_node() of the other conductor returns, until
\* qemu-nbd -c has connected it.
C28_SelectionReservesNothing ==
    [][\A p \in Conductors :
          (vol[p].pc # "bind" /\ vol'[p].pc = "bind") =>
              /\ bound' = bound /\ parts' = parts
              /\ vol'[p].dev \in AvailableDevices']_vars

\* Both conductors have selected device 0 and neither has connected it.
C28_Witness ==
    /\ vol[1].pc = "bind" /\ vol[2].pc = "bind"
    /\ vol[1].dev = 0 /\ vol[2].dev = 0
    /\ 0 \notin bound /\ 0 \in AvailableDevices

\* The conductor is inside wait_for_partition, and the partition it named
\* is a line of /proc/partitions.
Waiting == AtStep(vol[1]) = "wait"

Present == Entry(vol[1].dev, vol[1].num) \in parts

\* C29 as stated: wait_for_partition returns only when the named partition
\* is in /proc/partitions, returns in the end when the partition appears
\* and stays, and does not return while it never appears.
C29_Claim ==
    /\ [][(Waiting /\ ~Waiting') => Present]_vars
    /\ []((Waiting /\ []Present) => <>~Waiting)
    /\ []((Waiting /\ []~Present) => []Waiting)

\* ------------------------------------------------------------------------
\* The analyst that aggregates.

\* The step is a call of discard on analyst a.
DiscardStep(a) ==
    /\ Len(calls') = Len(calls) + 1
    /\ calls'[Len(calls')].op = "discard"
    /\ calls'[Len(calls')].a = a

\* The history holds an analyse of identity id by analyst a that returned,
\* and after it a discard of id on a.
AnalysedThenDiscarded(a, id) ==
    \E i, j \in DOMAIN calls :
        /\ i < j
        /\ calls[i] = [calls[i] EXCEPT !.op = "analyse", !.id = id, !.a = a,
                                        !.ok = TRUE]
        /\ calls[j].op = "discard" /\ calls[j].id = id /\ calls[j].a = a

\* The history holds a discard of an identity on analyst a that no analyse
\* of a ever got.
DiscardedUnseen(a) ==
    \E j \in DOMAIN calls :
        /\ calls[j].op = "discard" /\ calls[j].a = a
        /\ \A i \in DOMAIN calls :
              ~(calls[i].op = "analyse" /\ calls[i].a = a
                /\ calls[i].id = calls[j].id)

\* C30: a discard(id) on the experiment metadata analyst raises nothing,
\* leaves its table without a record for id and with the records of all
\* other identities as they were, whether analyse(id, sample) had stored a
\* record or not; with no record for id the table does not change.
C30_DiscardRemovesOnlyItsRecord ==
    [][\A a \in DOMAIN analysts :
          (analysts[a] = "experiment-metadata" /\ DiscardStep(a)) =>
              /\ calls'[Len(calls')].ok
              /\ pc' \in {"except", "requeue"}
              /\ execution \notin DOMAIN table'[a]
              /\ DOMAIN table'[a] = DOMAIN table[a] \ {execution}
              /\ \A id \in DOMAIN table'[a] : table'[a][id] = table[a][id]
              /\ execution \notin DOMAIN table[a] => table'[a] = table[a]]_vars

\* The experiment metadata analyst holds the record of one identity, after
\* a discard of an identity it had analysed and a discard of one it had
\* never seen.
C30_Witness ==
    \E a \in DOMAIN analysts :
        /\ analysts[a] = "experiment-metadata"
        /\ Cardinality(DOMAIN table[a]) = 1
        /\ DiscardedUnseen(a)
        /\ \E id \in 1..minted :
              AnalysedThenDiscarded(a, id) /\ id \notin DOMAIN table[a]

\* ------------------------------------------------------------------------
\* The domain and the console of a sample().

\* How often sample() ran the step.
Ran(step) == Cardinality({i \in DOMAIN tech.trace : tech.trace[i] = step})

\* sample() is over, and Emulator(...) had returned in it: a step after
\* "open" was run.
DomainOpened ==
    /\ tech.state = "sampled"
    /\ TracePos("open") # 0 /\ Len(tech.trace) > TracePos("open")

\* C31 as stated: a sample() of any technique that opened the domain
\* called domain.close() exactly once, however it ended.
C31_Claim == DomainOpened => Ran("close") = 1

\* sample() is over, and Agent(address), which opens and connects the
\* console socket, had returned in it.
ConsoleOpened ==
    /\ tech.state = "sampled"
    /\ TracePos("agent_connect") # 0
    /\ Len(tech.trace) > TracePos("agent_connect")

\* C32 as stated: a sample() of the acquisition technique that connected
\* the guest console closed that connection exactly once, however it ended.
C32_Claim == ConsoleOpened => Ran("agent_close") = 1

\* ------------------------------------------------------------------------
\* A step of sample() that raises.

\* The sample() of the current technique instance raised.
SampleFailed == \E j \in IdxsOf("sample", tech.inst) : ~calls[j].ok

\* sample() stopped at step n: it ran the steps up to n and, after them,
\* nothing but the domain.close() of its finally clause; no slot of step
\* n or of a later step is set.
StoppedAt(n) ==
    LET steps == SampleSteps(technique)
    IN /\ tech.trace \in {Prefix(steps, n), Prefix(steps, n) \o <<"close">>}
       /\ \A i \in n..Len(steps) : StepSlots(steps[i]) \cap tech.output = {}

\* C33: when a step of AcquisitionTechnique.sample() raises, no later step
\* of the sequence runs (after a failed acquire: no suspend, no save_memory,
\* no transfer; only the domain.close() of the finally clause), the
\* exception reaches the conductor, whose next call is a discard or the
\* release for that identity, and analyse is never called with the output
\* of an instance whose sample() raised.
C33_FailedSampleStops ==
    technique = "acquisition" =>
      /\ SampleFailed =>
            \E n \in 1..(Len(SampleSteps(technique)) - 1) : StoppedAt(n)
      /\ (SampleFailed /\ TracePos("acquire") # 0
           /\ "acquisition.return-code" \notin tech.output) =>
            /\ TracePos("suspend") = 0 /\ TracePos("save_memory") = 0
            /\ TracePos("volume.attach") = 0 /\ TracePos("copy") = 0
      /\ \A j \in Idxs("sample") :
            ~calls[j].ok =>
              /\ IdxsOf("analyse", calls[j].inst) = {}
              /\ IF j = Len(calls) THEN pc \in {"except", "requeue", "release"}
                 ELSE /\ calls[j + 1].op \in {"discard", "release"}
                      /\ calls[j + 1].id = calls[j].id

\* acquire raised in an acquisition execution that has been discarded and
\* released.
C33_Witness ==
    /\ technique = "acquisition"
    /\ tech.state = "released"
    /\ SampleFailed
    /\ tech.trace = Prefix(SampleSteps(technique), 10) \o <<"close">>
    /\ IdxsOf("discard", tech.inst) # {}

\* ------------------------------------------------------------------------
\* Who writes the slots of a sample.

\* The step is a call of one of the operations on the current instance.
StepOf(ops) ==
    /\ Len(calls') = Len(calls) + 1
    /\ calls'[Len(calls')].op \in ops
    /\ calls'[Len(calls')].inst = tech.inst

\* The step changes the slot store of the current instance.
SlotsChange == tech'.inst = tech.inst /\ tech'.output # tech.output

\* The slots that hold the names of temporary files.
FileSlots == {"memory.image", "memory.final", "memory.acquired"}

\* C34 as stated: the slot store of an instance changes only in its
\* sample().
C34_Original == [][SlotsChange => StepOf({"sample"})]_vars

\* C34, amended: the slot store of an instance changes only in its
\* allocate(), which assigns nothing but the slots naming its temporary
\* files, and in its sample(), which assigns none of those; release() and
\* every analyst's analyse, discard and collate leave it as it is; no slot
\* is ever removed.
C34_SlotsWrittenByAllocateAndSample ==
    [][SlotsChange =>
         /\ StepOf({"allocate", "sample"})
         /\ tech.output \subseteq tech'.output
         /\ IF StepOf({"allocate"})
            THEN tech'.output \ tech.output \subseteq FileSlots
            ELSE (tech'.output \ tech.output) \cap FileSlots = {}]_vars

\* An acquisition instance that was allocated, sampled, analysed and
\* released holds the slots of allocate() and those of sample().
C34_Witness ==
    /\ technique = "acquisition"
    /\ tech.state = "released"
    /\ IdxsOf("analyse", tech.inst) # {}
    /\ {"memory.final", "memory.acquired", "time.sample.start",
        "time.sample.finish"} \subseteq tech.output

\* ------------------------------------------------------------------------
\* The vector image on the host and in the domain.

\* The step is a sample() of the acquisition technique.
SampleStep == technique = "acquisition" /\ StepOf({"sample"})

\* Where sample() ran the step, after the step (0: it did not).
RanAt(step) ==
    IF \E i \in DOMAIN tech'.trace : tech'.trace[i] = step
    THEN CHOOSE i \in DOMAIN tech'.trace : tech'.trace[i] = step
    ELSE 0

\* Within one sample() the vector image is attached only after the
\* domain was closed.
AttachAfterClose ==
    RanAt("volume.attach") # 0 =>
        RanAt("close") # 0 /\ RanAt("close") < RanAt("volume.attach")

\* C35 as stated: in an acquisition execution the vector image is
\* attached to the host only after the domain was closed, and a sample()
\* does not have its domain open while the host has the image attached.
C35_Claim ==
    [][SampleStep =>
         /\ AttachAfterClose
         /\ (RanAt("open") # 0 /\ Len(tech'.trace) > RanAt("open")) =>
               ~attachedVector]_vars

\* ------------------------------------------------------------------------
\* release() and the analysts.

\* The calls of the operation made for the identity.
CallsFor(op, id) == {j \in Idxs(op) : calls[j].id = id}

\* C36: every analyse and every discard for an identity comes before the
\* release() of that identity's execution, and the release comes only when
\* the analysts are done with the sample: every analyst analysed it, or
\* every analyst was told to discard it.  An analyst is never handed a
\* sample whose technique was released.
C36_ReleaseAfterAnalysts ==
    /\ \A r \in Idxs("release") :
          /\ \A j \in CallsFor("analyse", calls[r].id)
                     \cup CallsFor("discard", calls[r].id) : j < r
          /\ \/ /\ Cardinality(CallsFor("analyse", calls[r].id))
                      = Len(analysts)
                /\ \A j \in CallsFor("analyse", calls[r].id) : calls[j].ok
             \/ Cardinality(CallsFor("discard", calls[r].id))
                   = Len(analysts)
    /\ pc \in {"analyse", "except"} => tech.state # "released"

\* Two analysts; one execution was released after both analysed its
\* sample, another after the second analyst failed and both discarded.
C36_Witness ==
    /\ Len(analysts) = 2
    /\ \E r1, r2 \in Idxs("release") :
          /\ Cardinality(CallsFor("analyse", calls[r1].id)) = 2
          /\ CallsFor("discard", calls[r1].id) = {}
          /\ Cardinality(CallsFor("analyse", calls[r2].id)) = 2
          /\ Cardinality(CallsFor("discard", calls[r2].id)) = 2

\* ------------------------------------------------------------------------
\* Requests and their replies.

\* The guest agent did what the protocol asks of it: line i is a reply to
\* request i and names its command.
AnswersInTurn ==
    \A i \in DOMAIN written :
        /\ i <= Len(requests)
        /\ written[i].kind = "reply"
        /\ written[i].command = requests[i].command

\* C37 as stated: a call that returns, returns the reply to its own
\* request: the line it decoded is the agent's answer to this request, not
\* to an earlier one that timed out, and names the requested command.
C37_Claim ==
    (AnswersInTurn /\ cpc = "ready" /\ result.kind = "return") =>
        /\ result.line = Len(requests)
        /\ written[result.line].command = requests[Len(requests)].command

\* ------------------------------------------------------------------------
\* What receive takes from the buffer.

\* C38: a receive that takes a line takes exactly the first line of the
\* buffer and its newline and keeps every byte after it; the line it takes
\* is the next line the agent wrote, so the messages of one read come out
\* in wire order, none lost and none twice; and while the buffer holds a
\* complete line the console reads nothing from the socket: the only step
\* it makes is to take that line.
C38_ReceiveTakesFirstLine ==
    [][/\ decoded' \in {decoded, decoded + 1}
       /\ decoded' = decoded + 1 =>
             /\ buffer = AgentText(written[decoded + 1]) \o <<"\n">>
                            \o buffer'
             /\ wire' = wire
             /\ result'.line = decoded + 1
       /\ (cpc = "receiving" /\ HasLine(buffer)) =>
             /\ Len(wire') >= Len(wire)
             /\ buffer' # buffer => decoded' = decoded + 1]_vars

\* One read delivered two messages: the first call returned the first,
\* and the second is in the buffer, whole.
C38_Witness ==
    /\ cpc = "ready" /\ decoded = 1 /\ result.line = 1
    /\ Len(written) = 2 /\ wire = <<>>
    /\ buffer = AgentText(written[2]) \o <<"\n">>

\* ------------------------------------------------------------------------
\* After a protocol error.

\* The last receive took line n and failed on it with a protocol error.
FailedOn(n) ==
    /\ n >= 1
    /\ result.line = n
    /\ result \in {Malformed(n), Unexpected(n)}
    /\ written[n].kind \in {"garbage", "incomplete", "headless", "event"}

\* C39: the line on which a receive failed with a protocol error is taken
\* out of the buffer: the buffer and the socket hold the text of the lines
\* after it and nothing of it; and the receive after the failure decodes
\* the line that follows the failed one.
C39_BadLineIsConsumed ==
    /\ [](FailedOn(decoded) =>
            buffer \o wire
              = WireText(SubSeq(written, decoded + 1, Len(written))))
    /\ [][(FailedOn(decoded) /\ decoded' = decoded + 1) =>
            result' = CallOutcome(AgentText(written[decoded + 1]),
                                  decoded + 1)]_vars

\* The first call failed on a text that is no JSON; the second call
\* returned the parameters of the reply that followed it.
C39_Witness ==
    /\ cpc = "ready" /\ Len(requests) = 2 /\ decoded = 2
    /\ written[1].kind = "garbage"
    /\ written[2].kind = "reply"
    /\ result = Returned(written[2].parameters, 2)

====
